---- MODULE Spec2Model ----
(***************************************************************************)
(* Coordinate-system reconciliation and bounds validation of cets-empiar.  *)
(*                                                                         *)
(* Two implementations of the reconciliation are modelled side by side:    *)
(*   - ValidatedPointSet3D (validation/validator_models/point_annotation)  *)
(*   - the thumbnail engine (thumbnails/thumbnail_image_utils)             *)
(* Coordinates and scale factors are integers here (floats in the code);   *)
(* the arithmetic used is multiplication and comparison only.              *)
(* Python exceptions are modelled as result records carrying the class of  *)
(* the exception (exc) and a kind that stands for its message (error).     *)
(***************************************************************************)
EXTENDS Integers, Sequences, FiniteSets, TLC

VARIABLES annotation, tomogram, validated, thumb, region, vrun, trun,
          registry, call, built, fs

(* one annotation/tomogram pair and what the validator and the thumbnail   *)
(* engine made of it                                                       *)
pair_vars == <<annotation, tomogram, validated, thumb>>

(* the tomograms and annotations of a region, and the progress of the      *)
(* validation workflow and of the thumbnail workflow over them             *)
workflow_vars == <<region, vrun, trun>>

(* the coordinate-system registry, a call of the transformation builder or *)
(* of an entity converter, and what the call produced                      *)
converter_vars == <<registry, call, built>>

(* the cache directory and the temporary files of the downloads *)
cache_vars == <<fs>>

vars == <<annotation, tomogram, validated, thumb, region, vrun, trun,
          registry, call, built, fs>>

---------------------------------------------------------------------------
(* Bounds of the explored inputs *)

MaxTr == 2

MaxPoints == 2

MaxCoord == 2

MaxManyPoints == 7

MaxTomograms == 2

MaxAnnotations == 2

MaxScaleLen == 4

(* lines of an .mdoc file *)
MaxLines == 3

(* z-sections of an .mdoc file handed to the conversion *)
MaxSections == 2

(* regions of a dataset *)
MaxRegions == 2

(* downloads made by the cached loaders *)
MaxDownloads == 3

---------------------------------------------------------------------------
(* Frame names.  The first two are the registry's names; the third is a    *)
(* frame that only an annotation or only a volume may declare.             *)

VOXEL == "default_image_voxel"

PHYSICAL == "physical_sampling_angstrom"

ANNOFRAME == "annotation_frame"

FrameNames == {VOXEL, PHYSICAL, ANNOFRAME}

FrameOrder == <<VOXEL, PHYSICAL, ANNOFRAME>>

(* 'voxel' in target_cs_name.lower(), tabulated over FrameNames *)
contains_voxel(name) == name = VOXEL

---------------------------------------------------------------------------
(* Error kinds: one per message raised by the code *)

MissingCoordinateSystem == "MissingCoordinateSystem"

NoPoints == "NoPoints"

AmbiguousFrame == "AmbiguousFrame"

NoCommonFrame == "NoCommonFrame"

NoBridgingTransformation == "NoBridgingTransformation"

UnsupportedAnnotationType == "UnsupportedAnnotationType"

InvalidParameters == "InvalidParameters"

UnknownFrame == "UnknownFrame"

DivisionByZero == "DivisionByZero"

UnsupportedTransformationKind == "UnsupportedTransformationKind"

TargetNotFound == "TargetNotFound"

OutOfBounds == "OutOfBounds"

ValueError == "ValueError"

NotImplementedError == "NotImplementedError"

ZeroDivisionError == "ZeroDivisionError"

---------------------------------------------------------------------------
(* Records *)

CoordinateSystem(n) == [name |-> n]

ScaleTransformation(i, o, s) ==
    [transformation_type |-> "scale", scale |-> s, input |-> i, output |-> o]

(* a transformation of a kind other than scale: it has no scale attribute *)
OtherTransformation(i, o) ==
    [transformation_type |-> "translation", scale |-> <<>>, input |-> i, output |-> o]

NoTransformation ==
    [transformation_type |-> "none", scale |-> <<>>, input |-> "", output |-> ""]

has_scale(t) == t.scale # <<>>

---------------------------------------------------------------------------
(* ValidatedPointSet3D *)

_get_cs_names(coordinate_systems) ==
    {coordinate_systems[i].name : i \in DOMAIN coordinate_systems}

(* variant: several common frames, one of them is taken *)
_check_coordinate_systems_without_transformation_picks_one(anno_cs, tomo_cs) ==
    LET anno_cs_names == _get_cs_names(anno_cs)
        tomo_cs_names == _get_cs_names(tomo_cs)
        common_cs == anno_cs_names \cap tomo_cs_names
    IN  IF common_cs # {}
        THEN [ok |-> TRUE, error |-> "", target |-> CHOOSE n \in common_cs : TRUE]
        ELSE [ok |-> FALSE, error |-> NoCommonFrame, target |-> ""]

_check_coordinate_systems_without_transformation(anno_cs, tomo_cs) ==
    LET anno_cs_names == _get_cs_names(anno_cs)
        tomo_cs_names == _get_cs_names(tomo_cs)
        common_cs == anno_cs_names \cap tomo_cs_names
    IN  IF common_cs # {}
        THEN IF Cardinality(common_cs) = 1
             THEN [ok |-> TRUE, error |-> "", target |-> CHOOSE n \in common_cs : TRUE]
             ELSE [ok |-> FALSE, error |-> AmbiguousFrame, target |-> ""]
        ELSE [ok |-> FALSE, error |-> NoCommonFrame, target |-> ""]

(* the condition of the if at lines 56-59 *)
bridges(t, anno_cs_names, tomo_cs_names) ==
    \/ (t.input \in tomo_cs_names /\ t.output \in anno_cs_names)
    \/ (t.input \in anno_cs_names /\ t.output \in tomo_cs_names)

RECURSIVE scan_transformations(_, _, _, _)
scan_transformations(trs, i, anno_cs_names, tomo_cs_names) ==
    IF i > Len(trs)
    THEN [ok |-> FALSE, error |-> NoBridgingTransformation,
          transformation |-> NoTransformation, target |-> ""]
    ELSE LET t == trs[i]
         IN  IF t.input = "" \/ t.output = ""
             THEN scan_transformations(trs, i + 1, anno_cs_names, tomo_cs_names)
             ELSE IF bridges(t, anno_cs_names, tomo_cs_names)
                  THEN [ok |-> TRUE, error |-> "", transformation |-> t,
                        target |-> IF t.input \in tomo_cs_names
                                   THEN t.output ELSE t.input]
                  ELSE scan_transformations(trs, i + 1, anno_cs_names, tomo_cs_names)

(* variant: the last bridging transformation is taken *)
_check_coordinate_system_with_transformation_last_wins(anno_trs, anno_cs, tomo_cs) ==
    LET anno_cs_names == _get_cs_names(anno_cs)
        tomo_cs_names == _get_cs_names(tomo_cs)
        hits == {i \in DOMAIN anno_trs :
                    /\ anno_trs[i].input # "" /\ anno_trs[i].output # ""
                    /\ bridges(anno_trs[i], anno_cs_names, tomo_cs_names)}
    IN  IF hits = {}
        THEN [ok |-> FALSE, error |-> NoBridgingTransformation,
              transformation |-> NoTransformation, target |-> ""]
        ELSE LET t == anno_trs[CHOOSE i \in hits : \A j \in hits : j <= i]
             IN  [ok |-> TRUE, error |-> "", transformation |-> t,
                  target |-> IF t.input \in tomo_cs_names THEN t.output ELSE t.input]

_check_coordinate_system_with_transformation(anno_trs, anno_cs, tomo_cs) ==
    scan_transformations(anno_trs, 1, _get_cs_names(anno_cs), _get_cs_names(tomo_cs))

(* variant: the x factor is used on every axis *)
scale_point_first_factor(p, s) == <<p[1] * s[1], p[2] * s[1], p[3] * s[1]>>

scale_point(p, s) == <<p[1] * s[1], p[2] * s[2], p[3] * s[3]>>

_apply_coordinate_transformation(coordinates, transformation) ==
    IF transformation.transformation_type = "scale"
    THEN [ok |-> TRUE, exc |-> "", error |-> "",
          coordinates |-> [i \in DOMAIN coordinates |->
                              scale_point(coordinates[i], transformation.scale)]]
    ELSE [ok |-> FALSE, exc |-> NotImplementedError,
          error |-> UnsupportedTransformationKind, coordinates |-> <<>>]

(* lines 94-98: the branch taken when the annotation has no transformation *)
resolve_without_transformation(annotation_coords, anno_cs, tomo_cs) ==
    LET c == _check_coordinate_systems_without_transformation(anno_cs, tomo_cs)
    IN  IF c.ok
        THEN [ok |-> TRUE, exc |-> "", error |-> "",
              transformation |-> NoTransformation,
              coordinates |-> annotation_coords, target_cs_name |-> c.target]
        ELSE [ok |-> FALSE, exc |-> ValueError, error |-> c.error,
              transformation |-> NoTransformation,
              coordinates |-> <<>>, target_cs_name |-> ""]

(* lines 99-108: the branch taken when the annotation has transformations *)
resolve_with_transformation(annotation_coords, anno_transformations, anno_cs, tomo_cs) ==
    LET c == _check_coordinate_system_with_transformation(
                 anno_transformations, anno_cs, tomo_cs)
    IN  IF ~c.ok
        THEN [ok |-> FALSE, exc |-> ValueError, error |-> c.error,
              transformation |-> NoTransformation,
              coordinates |-> <<>>, target_cs_name |-> ""]
        ELSE LET a == _apply_coordinate_transformation(
                          annotation_coords, c.transformation)
             IN  IF a.ok
                 THEN [ok |-> TRUE, exc |-> "", error |-> "",
                       transformation |-> c.transformation,
                       coordinates |-> a.coordinates,
                       target_cs_name |-> c.target]
                 ELSE [ok |-> FALSE, exc |-> a.exc, error |-> a.error,
                       transformation |-> c.transformation,
                       coordinates |-> <<>>, target_cs_name |-> ""]

(* variant: the test on the transformations is inverted *)
_get_transformed_coordinates_inverted(annotation_coords, anno_transformations, anno_cs, tomo_cs) ==
    IF anno_transformations # <<>>
    THEN resolve_without_transformation(annotation_coords, anno_cs, tomo_cs)
    ELSE resolve_with_transformation(
             annotation_coords, anno_transformations, anno_cs, tomo_cs)

_get_transformed_coordinates(annotation_coords, anno_transformations, anno_cs, tomo_cs) ==
    IF anno_transformations = <<>>
    THEN resolve_without_transformation(annotation_coords, anno_cs, tomo_cs)
    ELSE resolve_with_transformation(
             annotation_coords, anno_transformations, anno_cs, tomo_cs)

in_bounds(p, bounds) ==
    /\ bounds[1][1] <= p[1] /\ p[1] <= bounds[1][2]
    /\ bounds[2][1] <= p[2] /\ p[2] <= bounds[2][2]
    /\ bounds[3][1] <= p[3] /\ p[3] <= bounds[3][2]

(* enumerate() counts from 0 *)
RECURSIVE collect_out_of_bounds(_, _, _)
collect_out_of_bounds(coordinates, i, bounds) ==
    IF i > Len(coordinates)
    THEN <<>>
    ELSE (IF ~in_bounds(coordinates[i], bounds)
          THEN << <<i - 1, coordinates[i]>> >> ELSE <<>>)
         \o collect_out_of_bounds(coordinates, i + 1, bounds)

_check_points_within_bounds(coordinates, bounds) ==
    collect_out_of_bounds(coordinates, 1, bounds)

(* the loop at lines 163-167: the tomogram's coordinate system of that name *)
find_target_cs(tomo_cs, target_cs_name) ==
    \E i \in DOMAIN tomo_cs : tomo_cs[i].name = target_cs_name

(* variant: the output of the transformation is not compared with the target *)
find_scale_transform_any_output(tomo_trs, target_cs_name) ==
    LET hits == {i \in DOMAIN tomo_trs : has_scale(tomo_trs[i])}
    IN  IF hits = {} THEN 0 ELSE CHOOSE i \in hits : \A j \in hits : i <= j

(* the loop at lines 188-194: first transformation of the tomogram whose    *)
(* output is the target frame and which has a scale; 0 when there is none   *)
find_scale_transform(tomo_trs, target_cs_name) ==
    LET hits == {i \in DOMAIN tomo_trs :
                    tomo_trs[i].output = target_cs_name /\ has_scale(tomo_trs[i])}
    IN  IF hits = {} THEN 0 ELSE CHOOSE i \in hits : \A j \in hits : i <= j

(* all([tomogram.width, tomogram.height, tomogram.depth]) *)
all_dimensions(tomo) == tomo.width # 0 /\ tomo.height # 0 /\ tomo.depth # 0

voxel_bounds(tomo) ==
    << <<0, tomo.width>>, <<0, tomo.height>>, <<0, tomo.depth>> >>

physical_bounds(tomo, scale) ==
    << <<0, tomo.width * scale[1]>>,
       <<0, tomo.height * scale[2]>>,
       <<0, tomo.depth * scale[3]>> >>

(* lines 172-205: the bounds to check against, <<>> when the check is skipped *)
determine_bounds(tomo, target_cs_name) ==
    IF contains_voxel(target_cs_name)
    THEN IF ~all_dimensions(tomo) THEN <<>> ELSE voxel_bounds(tomo)
    ELSE LET k == find_scale_transform(tomo.coordinate_transformations, target_cs_name)
         IN  IF k # 0 /\ all_dimensions(tomo)
             THEN physical_bounds(tomo, tomo.coordinate_transformations[k].scale)
             ELSE <<>>

(* variant: fails only when both lists are empty *)
missing_coordinate_system_both(anno_cs, tomo_cs) ==
    anno_cs = <<>> /\ tomo_cs = <<>>

(* lines 141-144 *)
missing_coordinate_system(anno_cs, tomo_cs) ==
    anno_cs = <<>> \/ tomo_cs = <<>>

(* how many offending points the error message spells out *)
MaxListed == 5

NoMessage == [found |-> 0, bounds |-> <<>>, points |-> <<>>, more |-> <<>>]

(* variant: every offending point is spelled out *)
out_of_bounds_message_unabridged(out_of_bounds, bounds) ==
    [found |-> Len(out_of_bounds), bounds |-> bounds,
     points |-> out_of_bounds, more |-> <<>>]

(* lines 211-216: the text of the error, as its parts: the number found,   *)
(* the bounds, one line per listed point (out_of_bounds[:5]) and, past 5,  *)
(* the line "... and N more"                                               *)
out_of_bounds_message(out_of_bounds, bounds) ==
    [found |-> Len(out_of_bounds), bounds |-> bounds,
     points |-> SubSeq(out_of_bounds, 1,
                       IF Len(out_of_bounds) < MaxListed
                       THEN Len(out_of_bounds) ELSE MaxListed),
     more |-> IF Len(out_of_bounds) > MaxListed
              THEN <<Len(out_of_bounds) - MaxListed>> ELSE <<>>]

NotCalled ==
    [outcome |-> "none", exc |-> "", error |-> "", error_msg |-> NoMessage,
     transformation |-> NoTransformation, transformed_coords |-> <<>>,
     target_cs_name |-> "", bounds |-> <<>>, out_of_bounds |-> <<>>]

(* The record tells how the call ended (outcome "returned" or "raised",     *)
(* with the exception) and the values its local variables had by then.      *)
validate_with_tomogram(anno, tomo) ==
    LET anno_cs == anno.coordinate_systems
        tomo_cs == tomo.coordinate_systems
        coordinates == anno.origin3D
        r0 == NotCalled
    IN  IF missing_coordinate_system(anno_cs, tomo_cs)
        THEN [r0 EXCEPT !.outcome = "raised", !.exc = ValueError,
                        !.error = MissingCoordinateSystem]
        ELSE IF coordinates = <<>>
        THEN [r0 EXCEPT !.outcome = "raised", !.exc = ValueError, !.error = NoPoints]
        ELSE
        LET g == _get_transformed_coordinates(
                     coordinates, anno.coordinate_transformations, anno_cs, tomo_cs)
            r1 == [r0 EXCEPT !.transformation = g.transformation,
                             !.transformed_coords = g.coordinates,
                             !.target_cs_name = g.target_cs_name]
        IN  IF ~g.ok
            THEN [r1 EXCEPT !.outcome = "raised", !.exc = g.exc, !.error = g.error]
            ELSE IF ~find_target_cs(tomo_cs, g.target_cs_name)
            THEN [r1 EXCEPT !.outcome = "raised", !.exc = ValueError,
                            !.error = TargetNotFound]
            ELSE
            LET bounds == determine_bounds(tomo, g.target_cs_name)
            IN  IF bounds = <<>>
                THEN [r1 EXCEPT !.outcome = "returned"]
                ELSE
                LET out_of_bounds == _check_points_within_bounds(g.coordinates, bounds)
                    r2 == [r1 EXCEPT !.bounds = bounds, !.out_of_bounds = out_of_bounds]
                IN  IF out_of_bounds # <<>>
                    THEN [r2 EXCEPT !.outcome = "raised", !.exc = ValueError,
                                    !.error = OutOfBounds,
                                    !.error_msg =
                                        out_of_bounds_message(out_of_bounds, bounds)]
                    ELSE [r2 EXCEPT !.outcome = "returned"]

---------------------------------------------------------------------------
(* Thumbnail engine *)

(* variant: the final raise is missing *)
check_coordinate_systems_without_transformation_no_raise(anno_cs, tomo_cs) ==
    LET anno_cs_names == {anno_cs[i].name : i \in DOMAIN anno_cs}
        tomo_cs_names == {tomo_cs[i].name : i \in DOMAIN tomo_cs}
        common_cs == anno_cs_names \cap tomo_cs_names
    IN  IF common_cs # {}
        THEN IF Cardinality(common_cs) = 1
             THEN [ok |-> TRUE, error |-> ""]
             ELSE [ok |-> FALSE, error |-> AmbiguousFrame]
        ELSE [ok |-> TRUE, error |-> ""]

check_coordinate_systems_without_transformation(anno_cs, tomo_cs) ==
    LET anno_cs_names == {anno_cs[i].name : i \in DOMAIN anno_cs}
        tomo_cs_names == {tomo_cs[i].name : i \in DOMAIN tomo_cs}
        common_cs == anno_cs_names \cap tomo_cs_names
    IN  IF common_cs # {}
        THEN IF Cardinality(common_cs) = 1
             THEN [ok |-> TRUE, error |-> ""]
             ELSE [ok |-> FALSE, error |-> AmbiguousFrame]
        ELSE [ok |-> FALSE, error |-> NoCommonFrame]

RECURSIVE thumb_scan_transformations(_, _, _, _)
thumb_scan_transformations(trs, i, anno_cs_names, tomo_cs_names) ==
    IF i > Len(trs)
    THEN [ok |-> FALSE, error |-> NoBridgingTransformation,
          transformation |-> NoTransformation]
    ELSE LET input_cs == trs[i].input
             output_cs == trs[i].output
         IN  IF \/ (input_cs \in tomo_cs_names /\ output_cs \in anno_cs_names)
                \/ (input_cs \in anno_cs_names /\ output_cs \in tomo_cs_names)
             THEN [ok |-> TRUE, error |-> "", transformation |-> trs[i]]
             ELSE thumb_scan_transformations(trs, i + 1, anno_cs_names, tomo_cs_names)

check_coordinate_system_with_transformation(anno_trs, anno_cs, tomo_cs) ==
    thumb_scan_transformations(anno_trs, 1,
        {anno_cs[i].name : i \in DOMAIN anno_cs},
        {tomo_cs[i].name : i \in DOMAIN tomo_cs})

apply_coordinate_transformation(coordinates, transformation) ==
    IF transformation.transformation_type = "scale"
    THEN [ok |-> TRUE, exc |-> "", error |-> "",
          coordinates |-> [i \in DOMAIN coordinates |->
              <<coordinates[i][1] * transformation.scale[1],
                coordinates[i][2] * transformation.scale[2],
                coordinates[i][3] * transformation.scale[3]>>]]
    ELSE [ok |-> FALSE, exc |-> NotImplementedError,
          error |-> UnsupportedTransformationKind, coordinates |-> <<>>]

ThumbNotCalled == [outcome |-> "none", exc |-> "", error |-> "", coordinates |-> <<>>]

ThumbRaised(exc, error) ==
    [outcome |-> "raised", exc |-> exc, error |-> error, coordinates |-> <<>>]

ThumbReturned(coordinates) ==
    [outcome |-> "returned", exc |-> "", error |-> "", coordinates |-> coordinates]

get_transformed_point_set_3D_coordinates(anno, tomo) ==
    LET coordinates == anno.origin3D
        anno_trs == anno.coordinate_transformations
        anno_cs == anno.coordinate_systems
        tomo_cs == tomo.coordinate_systems
    IN  IF coordinates = <<>>
        THEN ThumbRaised(ValueError, NoPoints)
        ELSE IF anno_cs = <<>> \/ tomo_cs = <<>>
        THEN ThumbRaised(ValueError, MissingCoordinateSystem)
        ELSE IF anno_trs = <<>>
        THEN LET c == check_coordinate_systems_without_transformation(anno_cs, tomo_cs)
             IN  IF c.ok THEN ThumbReturned(coordinates)
                 ELSE ThumbRaised(ValueError, c.error)
        ELSE LET c == check_coordinate_system_with_transformation(
                          anno_trs, anno_cs, tomo_cs)
             IN  IF ~c.ok
                 THEN ThumbRaised(ValueError, c.error)
                 ELSE LET a == apply_coordinate_transformation(
                                   coordinates, c.transformation)
                      IN  IF a.ok THEN ThumbReturned(a.coordinates)
                          ELSE ThumbRaised(a.exc, a.error)

get_transformed_annotation_coordinates(anno, tomo) ==
    IF anno.type = "point_set_3D"
    THEN get_transformed_point_set_3D_coordinates(anno, tomo)
    ELSE ThumbRaised(NotImplementedError, UnsupportedAnnotationType)

---------------------------------------------------------------------------
(* Workflows over the tomograms and annotations of a region *)

NoRun == [status |-> "idle", t |-> 1, a |-> 1, log |-> <<>>, exc |-> "", error |-> ""]

(* validate_cets_annotations is entered: the loops run when both lists     *)
(* have elements                                                           *)
start_validate_cets_annotations(tomograms, annotations) ==
    [NoRun EXCEPT !.status = IF tomograms = <<>> \/ annotations = <<>>
                             THEN "done" ELSE "running"]

(* one turn of the inner loop, lines 23-33: r is how validate_with_tomogram *)
(* ended.  ValidationError and ValueError are caught and logged; any other  *)
(* exception leaves the function.                                           *)
validate_cets_annotations_turn(run, tomograms, annotations, r) ==
    IF r.outcome = "raised" /\ r.exc # ValueError
    THEN [run EXCEPT !.status = "aborted", !.exc = r.exc, !.error = r.error]
    ELSE LET entry == [t |-> run.t, a |-> run.a,
                       level |-> IF r.outcome = "returned" THEN "info" ELSE "warning",
                       error |-> r.error]
             last_a == run.a = Len(annotations)
             last_t == run.t = Len(tomograms)
         IN  [run EXCEPT !.log = Append(@, entry),
                         !.a = IF last_a THEN 1 ELSE @ + 1,
                         !.t = IF last_a THEN @ + 1 ELSE @,
                         !.status = IF last_a /\ last_t THEN "done" ELSE "running"]

NoThumbnailRun ==
    [status |-> "idle", t |-> 1, a |-> 1, projected_coords |-> <<>>,
     saved |-> <<>>, exc |-> "", error |-> ""]

(* process_tomogram_thumbnail is entered: the loop over the tomograms *)
start_process_tomogram_thumbnail(tomograms) ==
    [NoThumbnailRun EXCEPT !.status = IF tomograms = <<>> THEN "done" ELSE "running"]

(* one turn of the loop over the annotations, lines 109-122: r is how      *)
(* get_transformed_annotation_coordinates ended; no exception is caught    *)
process_tomogram_thumbnail_turn(run, r) ==
    IF r.outcome = "raised"
    THEN [run EXCEPT !.status = "aborted", !.exc = r.exc, !.error = r.error]
    ELSE [run EXCEPT !.projected_coords = Append(@, r.coordinates),
                     !.a = @ + 1]

(* lines 124-135: the thumbnails of the tomogram, one per annotation       *)
(* projected, are created and saved; then the next tomogram                *)
process_tomogram_thumbnail_save(run, tomograms) ==
    [run EXCEPT !.saved = Append(@, [t |-> run.t, plotted |-> run.projected_coords]),
                !.projected_coords = <<>>,
                !.a = 1,
                !.t = @ + 1,
                !.status = IF run.t = Len(tomograms) THEN "done" ELSE "running"]

---------------------------------------------------------------------------
(* Registry, transformation builder and entity converters *)

COORDINATE_SYSTEMS == [n \in {VOXEL, PHYSICAL} |-> CoordinateSystem(n)]

(* the name of the transformation, a text derived from the other fields,   *)
(* is left out                                                             *)
make_scale_transformation(input_cs, output_cs, scale) ==
    ScaleTransformation(input_cs, output_cs, scale)

(* variant: the number of components is not looked at *)
make_coordinate_transformation_any_length(type, input_cs, output_cs, params) ==
    IF type = "scale"
    THEN [ok |-> TRUE, exc |-> "", error |-> "",
          transformation |-> make_scale_transformation(input_cs, output_cs, params[1])]
    ELSE [ok |-> FALSE, exc |-> ValueError, error |-> UnsupportedTransformationKind,
          transformation |-> NoTransformation]

(* variant: every kind is built as a scale *)
make_coordinate_transformation_any_kind(type, input_cs, output_cs, params) ==
    IF Len(params[1]) # 3
    THEN [ok |-> FALSE, exc |-> ValueError, error |-> InvalidParameters,
          transformation |-> NoTransformation]
    ELSE [ok |-> TRUE, exc |-> "", error |-> "",
          transformation |-> make_scale_transformation(input_cs, output_cs, params[1])]

(* params is the list holding the scale: params[0] in the code *)
make_coordinate_transformation(type, input_cs, output_cs, params) ==
    IF type = "scale"
    THEN IF Len(params[1]) # 3
         THEN [ok |-> FALSE, exc |-> ValueError, error |-> InvalidParameters,
               transformation |-> NoTransformation]
         ELSE [ok |-> TRUE, exc |-> "", error |-> "",
               transformation |-> make_scale_transformation(input_cs, output_cs, params[1])]
    ELSE [ok |-> FALSE, exc |-> ValueError, error |-> UnsupportedTransformationKind,
          transformation |-> NoTransformation]

(* The header of an MRC file, as the values read_mrc_header unpacks: image *)
(* dimensions n, sampling dimensions m and cell dimensions, per axis.  The *)
(* quotients are exact in the headers explored.                            *)
read_mrc_header(header) ==
    LET m == [ax \in 1..3 |-> IF header.m[ax] > 0 THEN header.m[ax] ELSE header.n[ax]]
    IN  IF \E ax \in 1..3 : m[ax] = 0
        THEN [ok |-> FALSE, exc |-> ZeroDivisionError, error |-> DivisionByZero,
              dimensions |-> <<>>, pixel_size |-> <<>>]
        ELSE [ok |-> TRUE, exc |-> "", error |-> "",
              dimensions |-> header.n,
              pixel_size |-> [ax \in 1..3 |-> header.cell_dims[ax] \div m[ax]]]

(* value holds what the other functions called below return *)
NotBuilt ==
    [outcome |-> "none", exc |-> "", error |-> "",
     transformation |-> NoTransformation, dimensions |-> <<>>,
     coordinate_systems |-> <<>>, coordinate_transformations |-> <<>>,
     value |-> <<>>]

BuildRaised(exc, error) ==
    [NotBuilt EXCEPT !.outcome = "raised", !.exc = exc, !.error = error]

(* variant: the tomogram declares the voxel frame only *)
create_cets_tomogram_voxel_only(coordinate_systems, header) ==
    LET mrc_header_info == read_mrc_header(header)
    IN  IF ~mrc_header_info.ok
        THEN BuildRaised(mrc_header_info.exc, mrc_header_info.error)
        ELSE LET t == make_coordinate_transformation(
                          "scale", VOXEL, PHYSICAL, <<mrc_header_info.pixel_size>>)
             IN  IF ~t.ok
                 THEN BuildRaised(t.exc, t.error)
                 ELSE [NotBuilt EXCEPT
                          !.outcome = "returned",
                          !.dimensions = mrc_header_info.dimensions,
                          !.coordinate_systems = <<coordinate_systems[VOXEL]>>,
                          !.coordinate_transformations = <<t.transformation>>]

(* the body of the loop of create_cets_tomograms_from_region_definition,   *)
(* lines 32-51, for a tomogram with one file                               *)
create_cets_tomogram(coordinate_systems, header) ==
    LET mrc_header_info == read_mrc_header(header)
    IN  IF ~mrc_header_info.ok
        THEN BuildRaised(mrc_header_info.exc, mrc_header_info.error)
        ELSE LET t == make_coordinate_transformation(
                          "scale", VOXEL, PHYSICAL, <<mrc_header_info.pixel_size>>)
             IN  IF ~t.ok
                 THEN BuildRaised(t.exc, t.error)
                 ELSE [NotBuilt EXCEPT
                          !.outcome = "returned",
                          !.dimensions = mrc_header_info.dimensions,
                          !.coordinate_systems =
                              <<coordinate_systems[VOXEL], coordinate_systems[PHYSICAL]>>,
                          !.coordinate_transformations = <<t.transformation>>]

(* next(tt for tt in tomogram_transformations if tt.get("output") == ...): *)
(* the index of the first such transformation, 0 when there is none        *)
matching_transform(tomogram_transformations) ==
    LET hits == {i \in DOMAIN tomogram_transformations :
                    tomogram_transformations[i].output = PHYSICAL}
    IN  IF hits = {} THEN 0 ELSE CHOOSE i \in hits : \A j \in hits : i <= j

(* np.allclose(a, b, atol=0.01) on integer components: equality *)
allclose(a, b) == a = b

(* lines 39-56: the annotation's frame from a pixel size *)
frames_from_pixel_size(coordinate_systems, tomogram_transformations, pixel_size) ==
    LET k == matching_transform(tomogram_transformations)
    IN  IF k # 0 /\ allclose(tomogram_transformations[k].scale, pixel_size)
        THEN [NotBuilt EXCEPT
                 !.outcome = "returned",
                 !.coordinate_systems = <<coordinate_systems[PHYSICAL]>>,
                 !.coordinate_transformations = <<tomogram_transformations[k]>>]
        ELSE LET t == make_coordinate_transformation(
                          "scale", VOXEL, PHYSICAL, <<pixel_size>>)
             IN  IF ~t.ok
                 THEN BuildRaised(t.exc, t.error)
                 ELSE [NotBuilt EXCEPT
                          !.outcome = "returned",
                          !.coordinate_systems = <<coordinate_systems[PHYSICAL]>>,
                          !.coordinate_transformations = <<t.transformation>>]

(* variant: an unknown default coordinate system is passed over *)
create_new_annotation_coordinate_system_and_transformations_lenient(coordinate_systems, tomogram_transformations, pixel_size, annotation_default_coordinate_system) ==
    IF annotation_default_coordinate_system \in DOMAIN coordinate_systems
    THEN [NotBuilt EXCEPT
             !.outcome = "returned",
             !.coordinate_systems =
                 <<coordinate_systems[annotation_default_coordinate_system]>>]
    ELSE IF pixel_size # <<>>
    THEN frames_from_pixel_size(coordinate_systems, tomogram_transformations, pixel_size)
    ELSE [NotBuilt EXCEPT !.outcome = "returned"]

(* variant: the pixel size is looked at before the default coordinate      *)
(* system                                                                  *)
create_new_annotation_coordinate_system_and_transformations_pixel_size_first(coordinate_systems, tomogram_transformations, pixel_size, annotation_default_coordinate_system) ==
    IF pixel_size # <<>>
    THEN frames_from_pixel_size(coordinate_systems, tomogram_transformations, pixel_size)
    ELSE IF annotation_default_coordinate_system # ""
    THEN IF annotation_default_coordinate_system \notin DOMAIN coordinate_systems
         THEN BuildRaised(ValueError, UnknownFrame)
         ELSE [NotBuilt EXCEPT
                  !.outcome = "returned",
                  !.coordinate_systems =
                      <<coordinate_systems[annotation_default_coordinate_system]>>]
    ELSE [NotBuilt EXCEPT !.outcome = "returned"]

(* A missing name or pixel size (None) is "" or <<>>: both are false where *)
(* the code tests them.  coordinate_systems is the registry.               *)
create_new_annotation_coordinate_system_and_transformations(coordinate_systems, tomogram_transformations, pixel_size, annotation_default_coordinate_system) ==
    IF annotation_default_coordinate_system # ""
    THEN IF annotation_default_coordinate_system \notin DOMAIN coordinate_systems
         THEN BuildRaised(ValueError, UnknownFrame)
         ELSE [NotBuilt EXCEPT
                  !.outcome = "returned",
                  !.coordinate_systems =
                      <<coordinate_systems[annotation_default_coordinate_system]>>]
    ELSE IF pixel_size # <<>>
    THEN frames_from_pixel_size(coordinate_systems, tomogram_transformations, pixel_size)
    ELSE [NotBuilt EXCEPT !.outcome = "returned"]

---------------------------------------------------------------------------
(* Depth-windowed projection.  A proportion is a pair <<numerator,         *)
(* denominator>>; the inequalities are the code's, multiplied through by   *)
(* the denominators (2 for the centre depth, the proportion's own).        *)

abs(v) == IF v < 0 THEN -v ELSE v

(* abs(z - depth / 2.0) <= depth * limit_proportion *)
near_centre(z, depth, limit_proportion) ==
    abs(2 * z - depth) * limit_proportion[2] <= 2 * depth * limit_proportion[1]

RECURSIVE keep_near_centre(_, _, _, _)
keep_near_centre(coordinates, i, depth, limit_proportion) ==
    IF i > Len(coordinates)
    THEN <<>>
    ELSE (IF near_centre(coordinates[i][3], depth, limit_proportion)
          THEN << <<coordinates[i][1], coordinates[i][2]>> >> ELSE <<>>)
         \o keep_near_centre(coordinates, i + 1, depth, limit_proportion)

(* variant: a point on the edge of the window is dropped *)
filter_coordinates_by_depth_strict(coordinates, depth, limit_proportion) ==
    LET inside == SelectSeq(coordinates,
                     LAMBDA p : abs(2 * p[3] - depth) * limit_proportion[2]
                                   < 2 * depth * limit_proportion[1])
    IN  [i \in DOMAIN inside |-> <<inside[i][1], inside[i][2]>>]

filter_coordinates_by_depth(coordinates, depth, limit_proportion) ==
    keep_near_centre(coordinates, 1, depth, limit_proportion)

(* tomogram_shape is (depth, width, height) as the function unpacks it.    *)
(* The two scale factors are exact quotients in the inputs explored.       *)
project_and_scale_coordinates(coordinates, tomogram_shape, thumbnail_size, limit_annotation) ==
    LET tomo_depth == tomogram_shape[1]
        tomo_width == tomogram_shape[2]
        tomo_height == tomogram_shape[3]
        coords_2d == filter_coordinates_by_depth(coordinates, tomo_depth, limit_annotation)
        scale_x == thumbnail_size[1] \div tomo_width
        scale_y == thumbnail_size[2] \div tomo_height
    IN  [i \in DOMAIN coords_2d |-> <<coords_2d[i][1] * scale_x, coords_2d[i][2] * scale_y>>]

(* thumbnail.py: abs(z - z_centre) / tomo_depth <= limit_annotation, for a *)
(* positive depth                                                          *)
legacy_project_and_scale_coordinates(coordinates, tomogram_shape, thumbnail_size, limit_annotation) ==
    LET tomo_depth == tomogram_shape[1]
        tomo_width == tomogram_shape[2]
        tomo_height == tomogram_shape[3]
        kept == SelectSeq(coordinates,
                    LAMBDA p : abs(2 * p[3] - tomo_depth) * limit_annotation[2]
                                  <= limit_annotation[1] * 2 * tomo_depth)
        scale_x == thumbnail_size[1] \div tomo_width
        scale_y == thumbnail_size[2] \div tomo_height
    IN  [i \in DOMAIN kept |-> <<kept[i][1] * scale_x, kept[i][2] * scale_y>>]

---------------------------------------------------------------------------
(* Inputs *)

SeqsUpTo(S, n) == UNION {[1..k -> S] : k \in 0..n}

(* the coordinate systems named in S, as a list in registry order *)
CsList(S) ==
    LET names == SelectSeq(FrameOrder, LAMBDA n : n \in S)
    IN  [i \in DOMAIN names |-> CoordinateSystem(names[i])]

ScalePool == {<<2, 2, 2>>, <<1, 2, 3>>}

(* one scale per pair of endpoints: the converter's isotropic scale from    *)
(* voxel to physical, an anisotropic one between any other two frames      *)
PoolScale(i, o) ==
    IF i = VOXEL /\ o = PHYSICAL THEN <<2, 2, 2>> ELSE <<1, 2, 3>>

TransformationPool ==
    {ScaleTransformation(i, o, PoolScale(i, o)) : i \in FrameNames, o \in FrameNames}
    \cup {OtherTransformation(VOXEL, PHYSICAL)}

(* the volume the tomogram converter produces: both registry frames and one *)
(* voxel-to-physical scale                                                  *)
ConverterTomogramTransformations == <<ScaleTransformation(VOXEL, PHYSICAL, <<2, 2, 2>>)>>

(* points of the scenarios: (15,2,3) leaves a 10x10x10 volume once scaled *)
ScenarioPoints == << <<15, 2, 3>>, <<1, 2, 3>> >>

ScenarioExtent == <<10, 10, 10>>

(* any frames and transformations on the annotation, any frames on the volume *)
FrameInputs ==
    /\ annotation \in
         [type : {"point_set_3D"}, origin3D : {ScenarioPoints},
          coordinate_systems : {CsList(S) : S \in SUBSET FrameNames},
          coordinate_transformations : SeqsUpTo(TransformationPool, MaxTr)]
    /\ tomogram \in
         [width : {ScenarioExtent[1]}, height : {ScenarioExtent[2]},
          depth : {ScenarioExtent[3]},
          coordinate_systems : {CsList(S) : S \in SUBSET FrameNames},
          coordinate_transformations : {ConverterTomogramTransformations}]

Coord == -1..MaxCoord

(* points that leave the origin along one axis only *)
PointPool ==
    {<<c, 0, 0>> : c \in Coord} \cup {<<0, c, 0>> : c \in Coord}
        \cup {<<0, 0, c>> : c \in Coord}

(* a full extent, and extents with a dimension of 0 *)
ExtentPool == {<<2, 1, 1>>, <<0, 1, 1>>, <<2, 1, 0>>}

AnnotationFramePool ==
    {[coordinate_systems |-> CsList({VOXEL}), coordinate_transformations |-> <<>>],
     [coordinate_systems |-> CsList({PHYSICAL}), coordinate_transformations |-> <<>>],
     [coordinate_systems |-> CsList({}), coordinate_transformations |-> <<>>]}
    \cup {[coordinate_systems |-> CsList({PHYSICAL}),
           coordinate_transformations |-> <<ScaleTransformation(VOXEL, PHYSICAL, s)>>]
             : s \in ScalePool}

TomogramTransformationPool ==
    {<<>>,
     ConverterTomogramTransformations,
     <<ScaleTransformation(PHYSICAL, VOXEL, <<2, 2, 2>>),
       ScaleTransformation(VOXEL, PHYSICAL, <<1, 2, 3>>)>>}

(* the frames the converters produce, any points, any extent *)
PointInputs ==
    /\ \E f \in AnnotationFramePool, pts \in SeqsUpTo(PointPool, MaxPoints) :
         annotation = [type |-> "point_set_3D", origin3D |-> pts,
                       coordinate_systems |-> f.coordinate_systems,
                       coordinate_transformations |-> f.coordinate_transformations]
    /\ \E e \in ExtentPool, trs \in TomogramTransformationPool :
         tomogram = [width |-> e[1], height |-> e[2], depth |-> e[3],
                     coordinate_systems |-> CsList({VOXEL, PHYSICAL}),
                     coordinate_transformations |-> trs]

(* a voxel-frame annotation with up to MaxManyPoints points, each inside   *)
(* or outside the volume                                                   *)
ManyPointInputs ==
    /\ \E pts \in SeqsUpTo({<<0, 0, 0>>, <<-1, 0, 0>>}, MaxManyPoints) :
         annotation = [type |-> "point_set_3D", origin3D |-> pts,
                       coordinate_systems |-> CsList({VOXEL}),
                       coordinate_transformations |-> <<>>]
    /\ tomogram = [width |-> 2, height |-> 1, depth |-> 1,
                   coordinate_systems |-> CsList({VOXEL, PHYSICAL}),
                   coordinate_transformations |-> ConverterTomogramTransformations]

(* no pair handed to the validator or the thumbnail engine *)
NoAnnotation ==
    [type |-> "", origin3D |-> <<>>, coordinate_systems |-> <<>>,
     coordinate_transformations |-> <<>>]

NoTomogram ==
    [width |-> 0, height |-> 0, depth |-> 0, coordinate_systems |-> <<>>,
     coordinate_transformations |-> <<>>]

PointSet3D(pts, names, trs) ==
    [type |-> "point_set_3D", origin3D |-> pts, coordinate_systems |-> CsList(names),
     coordinate_transformations |-> trs]

(* one annotation that validates against the tomograms below, and one for  *)
(* each way the reconciliation and the bounds check can fail               *)
RegionAnnotationPool ==
    {PointSet3D(<< <<1, 0, 0>> >>, {VOXEL}, <<>>),
     PointSet3D(<< <<1, 0, 0>> >>, {}, <<>>),
     PointSet3D(<< <<1, 0, 0>> >>, {ANNOFRAME}, <<>>),
     PointSet3D(<< <<1, 0, 0>> >>, {VOXEL, PHYSICAL}, <<>>),
     PointSet3D(<< <<1, 0, 0>> >>, {ANNOFRAME},
                <<ScaleTransformation(ANNOFRAME, ANNOFRAME, <<1, 2, 3>>)>>),
     PointSet3D(<< <<1, 0, 0>> >>, {PHYSICAL}, <<OtherTransformation(VOXEL, PHYSICAL)>>),
     PointSet3D(<< <<-1, 0, 0>> >>, {VOXEL}, <<>>)}

RegionTomogramPool ==
    {[width |-> 2, height |-> 1, depth |-> 1,
      coordinate_systems |-> CsList({VOXEL, PHYSICAL}),
      coordinate_transformations |-> ConverterTomogramTransformations],
     [width |-> 4, height |-> 4, depth |-> 4,
      coordinate_systems |-> CsList({VOXEL, PHYSICAL}),
      coordinate_transformations |-> ConverterTomogramTransformations]}

NoRegion == [tomograms |-> <<>>, annotations |-> <<>>]

RegionInputs ==
    region \in [tomograms : SeqsUpTo(RegionTomogramPool, MaxTomograms),
                annotations : SeqsUpTo(RegionAnnotationPool, MaxAnnotations)]

NoHeader == [n |-> <<>>, m |-> <<>>, cell_dims |-> <<>>]

(* args holds the arguments of the other functions called below *)
NoCall ==
    [op |-> "", type |-> "", input_cs |-> "", output_cs |-> "", params |-> <<>>,
     header |-> NoHeader, tomogram_transformations |-> <<>>, pixel_size |-> <<>>,
     annotation_default_coordinate_system |-> "", args |-> <<>>]

TransformationKinds == {"scale", "translation", "affine"}

(* any kind, a list of 0 to MaxScaleLen components, zero among them *)
BuilderCalls ==
    {[NoCall EXCEPT !.op = "make_coordinate_transformation", !.type = k,
                    !.input_cs = e[1], !.output_cs = e[2], !.params = <<sc>>] :
        k \in TransformationKinds,
        e \in {<<VOXEL, PHYSICAL>>, <<PHYSICAL, VOXEL>>, <<ANNOFRAME, VOXEL>>},
        sc \in SeqsUpTo(0..2, MaxScaleLen)}

(* per axis: image dimension, sampling dimension, cell dimension.  m = 0   *)
(* stands for a header without sampling dimensions.                        *)
HeaderAxisPool == {<<2, 0, 4>>, <<4, 2, 4>>, <<2, 2, 0>>, <<0, 0, 4>>}

TomogramCalls ==
    {[NoCall EXCEPT !.op = "create_cets_tomogram",
                    !.header = [n |-> <<x[1], y[1], z[1]>>,
                                m |-> <<x[2], y[2], z[2]>>,
                                cell_dims |-> <<x[3], y[3], z[3]>>]] :
        x \in HeaderAxisPool, y \in HeaderAxisPool, z \in HeaderAxisPool}

(* no name (""), the registry's names and names the registry lacks; no     *)
(* pixel size (<<>>) or one                                                *)
AnnotationFrameCalls ==
    {[NoCall EXCEPT !.op = "create_new_annotation_coordinate_system_and_transformations",
                    !.tomogram_transformations = trs,
                    !.pixel_size = px,
                    !.annotation_default_coordinate_system = d] :
        trs \in TomogramTransformationPool,
        px \in {<<>>} \cup ScalePool,
        d \in {"", VOXEL, PHYSICAL, ANNOFRAME, "voxel"}}

ConverterInputs == call \in BuilderCalls \cup TomogramCalls \cup AnnotationFrameCalls

(* points across the depth of the volume, left of it (x = -1) or right of  *)
(* it (x = 5)                                                              *)
ProjectionPointPool == {<<x, 1, z>> : x \in {-1, 5}, z \in 0..4}

(* shapes are (depth, width, height); thumbnail sizes are multiples of the *)
(* widths and heights                                                      *)
ProjectionCalls ==
    {[NoCall EXCEPT !.op = "project_and_scale_coordinates",
                    !.args = [coordinates |-> pts, tomogram_shape |-> sh,
                              thumbnail_size |-> ts, limit_annotation |-> la]] :
        pts \in SeqsUpTo(ProjectionPointPool, MaxPoints),
        sh \in {<<4, 2, 4>>, <<2, 4, 2>>},
        ts \in {<<4, 4>>, <<8, 4>>},
        la \in {<<0, 1>>, <<1, 4>>, <<1, 2>>, <<1, 1>>}}

ProjectionInputs == call \in ProjectionCalls

---------------------------------------------------------------------------
(* .mdoc parsing (empiar_to_cets/parsing/metadata_parsing.py).  A file is  *)
(* a sequence of lines; the string tests of the parser are tabulated over  *)
(* the lines of MdocLinePool.                                              *)

MdocLinePool ==
    {"", "[T = SerialEM: Acquired = today]", "[ZValue = 0]", "[ZValue = 1]",
     "[FrameSet = 0]", "TiltAngle = 1.5", "  TiltAngle = 3  ",
     "DateTime = 01-Jan"}

(* line.strip() *)
strip(line) == IF line = "  TiltAngle = 3  " THEN "TiltAngle = 3" ELSE line

(* line.startswith('[T =') and line.endswith(']') *)
is_comment(line) == line \in {"[T = SerialEM: Acquired = today]"}

(* re.match(r'\[ZValue\s*=\s*(\d+)\]', line): the groups, <<>> for no match *)
z_value_match(line) ==
    CASE line = "[ZValue = 0]" -> <<0>>
      [] line = "[ZValue = 1]" -> <<1>>
      [] OTHER -> <<>>

(* '=' in line *)
contains_equals(line) ==
    line \in {"[T = SerialEM: Acquired = today]", "[ZValue = 0]", "[ZValue = 1]",
              "[FrameSet = 0]", "TiltAngle = 1.5", "TiltAngle = 3",
              "DateTime = 01-Jan"}

(* line.startswith('[') *)
startswith_bracket(line) ==
    line \in {"[T = SerialEM: Acquired = today]", "[ZValue = 0]", "[ZValue = 1]",
              "[FrameSet = 0]"}

(* line.split('=', 1), both parts stripped *)
split_key_value(line) ==
    CASE line = "TiltAngle = 1.5" -> [key |-> "TiltAngle", value |-> "1.5"]
      [] line = "TiltAngle = 3" -> [key |-> "TiltAngle", value |-> "3"]
      [] line = "DateTime = 01-Jan" -> [key |-> "DateTime", value |-> "01-Jan"]
      [] line = "[T = SerialEM: Acquired = today]" ->
             [key |-> "[T", value |-> "SerialEM: Acquired = today]"]
      [] line = "[ZValue = 0]" -> [key |-> "[ZValue", value |-> "0]"]
      [] line = "[ZValue = 1]" -> [key |-> "[ZValue", value |-> "1]"]
      [] OTHER -> [key |-> "[FrameSet", value |-> "0]"]

(* int(), then float(), else the string itself *)
parse_value(value_str) ==
    IF value_str \in {"3"} THEN [type |-> "int", text |-> value_str]
    ELSE IF value_str \in {"1.5"} THEN [type |-> "float", text |-> value_str]
    ELSE [type |-> "str", text |-> value_str]

(* d[key] = value on a dict; <<>> is the empty dict *)
dict_set(d, key, value) ==
    [k \in DOMAIN d \cup {key} |-> IF k = key THEN value ELSE d[k]]

(* MdocFile(filename=filepath), current_section = None (0),                *)
(* in_global_headers = True                                                *)
NewMdoc ==
    [global_headers |-> <<>>, z_sections |-> <<>>,
     current_section |-> 0, in_global_headers |-> TRUE]

(* variant: key=value lines keep going to the global headers *)
parse_mdoc_line_global_only(st, raw) ==
    LET line == strip(raw)
        m == z_value_match(line)
    IN  IF line = "" THEN st
        ELSE IF is_comment(line) THEN st
        ELSE IF m # <<>>
        THEN [st EXCEPT !.z_sections = Append(@, [z_value |-> m[1], metadata |-> <<>>]),
                        !.current_section = Len(st.z_sections) + 1]
        ELSE IF contains_equals(line) /\ ~startswith_bracket(line)
        THEN LET kv == split_key_value(line)
             IN  [st EXCEPT !.global_headers = dict_set(@, kv.key, parse_value(kv.value))]
        ELSE st

(* one turn of the loop over the lines; current_section is the index of    *)
(* the section object last appended to z_sections                          *)
parse_mdoc_line(st, raw) ==
    LET line == strip(raw)
        m == z_value_match(line)
    IN  IF line = "" THEN st
        ELSE IF is_comment(line) THEN st
        ELSE IF m # <<>>
        THEN [st EXCEPT !.z_sections = Append(@, [z_value |-> m[1], metadata |-> <<>>]),
                        !.current_section = Len(st.z_sections) + 1,
                        !.in_global_headers = FALSE]
        ELSE IF contains_equals(line) /\ ~startswith_bracket(line)
        THEN LET kv == split_key_value(line)
                 parsed_value == parse_value(kv.value)
             IN  IF st.in_global_headers
                 THEN [st EXCEPT !.global_headers = dict_set(@, kv.key, parsed_value)]
                 ELSE IF st.current_section # 0
                 THEN [st EXCEPT !.z_sections[st.current_section].metadata =
                                     dict_set(@, kv.key, parsed_value)]
                 ELSE st
        ELSE st

RECURSIVE parse_mdoc_lines(_, _)
parse_mdoc_lines(st, lines) ==
    IF lines = <<>> THEN st
    ELSE parse_mdoc_lines(parse_mdoc_line(st, Head(lines)), Tail(lines))

parse_mdoc_file(lines) ==
    LET st == parse_mdoc_lines(NewMdoc, lines)
    IN  [global_headers |-> st.global_headers, z_sections |-> st.z_sections]

MdocCalls ==
    {[NoCall EXCEPT !.op = "parse_mdoc_file", !.args = [lines |-> ls]] :
        ls \in SeqsUpTo(MdocLinePool, MaxLines)}

MdocInputs == call \in MdocCalls

---------------------------------------------------------------------------

(* Tilt series and movie stacks from .mdoc metadata                        *)
(* (entity_conversion/tilt_series_and_movie.py).  A z-section carries its  *)
(* z_value and what the conversion reads from its metadata: whether the    *)
(* SubFramePath leads to a listed EMPIAR file, whether PriorRecordDose and *)
(* FrameDosesAndNumber are there, and whether the tilt image derived from  *)
(* the SubFramePath is among the tilt series paths.                        *)

KeyError == "KeyError"

(* f"{region.name}_movie_stack_{z_section.z_value:03d}" *)
movie_stack_id_of(region_name, z_value) == <<region_name, "_movie_stack_", z_value>>

(* f"{region_name}_movie_stack_series" *)
movie_stack_series_id_of(region_name) == <<region_name, "_movie_stack_series">>

(* f"{region_name}_tilt_series" *)
tilt_series_id_of(region_name) == <<region_name, "_tilt_series">>

create_movie_stack_for_section(z_section, region_name) ==
    IF ~z_section.subframe_matches
    THEN [ok |-> FALSE, exc |-> ValueError, error |-> "SubFramePathUnmatched"]
    ELSE [ok |-> TRUE,
          movie_stack |-> [id |-> movie_stack_id_of(region_name, z_section.z_value)]]

(* variant: the section of a tilt image is always 0 *)
create_tilt_image_for_section_first(z_section, movie_stack_id, is_single_stack_file) ==
    IF ~is_single_stack_file /\ ~z_section.tilt_image_listed
    THEN [ok |-> FALSE, exc |-> ValueError, error |-> "TiltImageNotFound"]
    ELSE IF ~z_section.has_dose
    THEN [ok |-> FALSE, exc |-> KeyError, error |-> "MissingDose"]
    ELSE [ok |-> TRUE,
          tilt_image |-> [movie_stack_id |-> movie_stack_id, section |-> 0]]

create_tilt_image_for_section(z_section, movie_stack_id, is_single_stack_file) ==
    IF ~is_single_stack_file /\ ~z_section.tilt_image_listed
    THEN [ok |-> FALSE, exc |-> ValueError, error |-> "TiltImageNotFound"]
    ELSE IF ~z_section.has_dose
    THEN [ok |-> FALSE, exc |-> KeyError, error |-> "MissingDose"]
    ELSE [ok |-> TRUE,
          tilt_image |-> [movie_stack_id |-> movie_stack_id,
                          section |-> z_section.z_value]]

(* the loop over metadata.z_sections, from section i on *)
RECURSIVE create_movie_stacks_and_tilt_images(_, _, _, _, _, _)
create_movie_stacks_and_tilt_images(z_sections, region_name, is_single_stack_file, i, movie_stacks, tilt_images) ==
    IF i > Len(z_sections)
    THEN [ok |-> TRUE, movie_stacks |-> movie_stacks, tilt_images |-> tilt_images]
    ELSE LET ms == create_movie_stack_for_section(z_sections[i], region_name)
         IN  IF ~ms.ok THEN [ok |-> FALSE, exc |-> ms.exc, error |-> ms.error]
             ELSE LET ti == create_tilt_image_for_section(
                                z_sections[i], ms.movie_stack.id, is_single_stack_file)
                  IN  IF ~ti.ok THEN [ok |-> FALSE, exc |-> ti.exc, error |-> ti.error]
                      ELSE create_movie_stacks_and_tilt_images(
                               z_sections, region_name, is_single_stack_file, i + 1,
                               Append(movie_stacks, ms.movie_stack),
                               Append(tilt_images, ti.tilt_image))

create_movie_stack_collection(region_name, movie_stacks) ==
    [movie_stacks |-> <<[id |-> movie_stack_series_id_of(region_name),
                         stacks |-> movie_stacks]>>]

create_tilt_series(region_name, images) ==
    [id |-> tilt_series_id_of(region_name), images |-> images,
     movie_stack_series_id |-> movie_stack_series_id_of(region_name)]

create_cets_tilt_and_movie_families_with_metadata(region_name, is_single_stack_file, z_sections) ==
    LET r == create_movie_stacks_and_tilt_images(
                 z_sections, region_name, is_single_stack_file, 1, <<>>, <<>>)
    IN  IF ~r.ok THEN BuildRaised(r.exc, r.error)
        ELSE [NotBuilt EXCEPT
                 !.outcome = "returned",
                 !.value = [movie_stack_collection |->
                                create_movie_stack_collection(region_name, r.movie_stacks),
                            tilt_series |->
                                create_tilt_series(region_name, r.tilt_images)]]

(* z-sections whose metadata is complete, or lacks exactly one thing *)
ZSectionPool ==
    {[z_value |-> z, subframe_matches |-> f[1], has_dose |-> f[2],
      tilt_image_listed |-> f[3]] :
        z \in 0..2,
        f \in {<<TRUE, TRUE, TRUE>>, <<FALSE, TRUE, TRUE>>,
               <<TRUE, FALSE, TRUE>>, <<TRUE, TRUE, FALSE>>}}

TiltSeriesCalls ==
    {[NoCall EXCEPT !.op = "create_cets_tilt_and_movie_families_with_metadata",
                    !.args = [region_name |-> n, is_single_stack_file |-> s,
                              z_sections |-> zs]] :
        n \in {"region_1", "region_2"}, s \in BOOLEAN,
        zs \in SeqsUpTo(ZSectionPool, MaxSections)}

TiltSeriesInputs == call \in TiltSeriesCalls

---------------------------------------------------------------------------

(* populate_cets_region (empiar_to_cets/empiar_conversion.py), for a       *)
(* region with one tomogram and one point_set_3D annotation: the tomogram  *)
(* converter, then the annotation converter on its result.  origin3D and   *)
(* pixel_size are what get_coordinates_and_units_from_star_json reads from *)
(* the annotation's file.                                                  *)
populate_cets_region(coordinate_systems, header, origin3D, pixel_size, annotation_default_coordinate_system) ==
    LET t == create_cets_tomogram(coordinate_systems, header)
    IN  IF t.outcome = "raised"
        THEN [built |-> t, tomogram |-> NoTomogram, annotation |-> NoAnnotation]
        ELSE
        LET cets_tomogram ==
                [width |-> t.dimensions[1], height |-> t.dimensions[2],
                 depth |-> t.dimensions[3],
                 coordinate_systems |-> t.coordinate_systems,
                 coordinate_transformations |-> t.coordinate_transformations]
            a == create_new_annotation_coordinate_system_and_transformations(
                     coordinate_systems, t.coordinate_transformations, pixel_size,
                     annotation_default_coordinate_system)
        IN  IF a.outcome = "raised"
            THEN [built |-> a, tomogram |-> NoTomogram, annotation |-> NoAnnotation]
            ELSE [built |-> [NotBuilt EXCEPT !.outcome = "returned"],
                  tomogram |-> cets_tomogram,
                  annotation |->
                      [type |-> "point_set_3D", origin3D |-> origin3D,
                       coordinate_systems |-> a.coordinate_systems,
                       coordinate_transformations |-> a.coordinate_transformations]]

(* headers of TomogramCalls; one point; no pixel size or an isotropic one; *)
(* no frame name, a registry name or an unknown name                       *)
RegionCalls ==
    {[c EXCEPT !.op = "populate_cets_region",
               !.args = [origin3D |-> << <<1, 0, 0>> >>],
               !.pixel_size = px,
               !.annotation_default_coordinate_system = d] :
        c \in TomogramCalls,
        px \in {<<>>, <<1, 1, 1>>, <<2, 2, 2>>},
        d \in {"", VOXEL, PHYSICAL, "voxel"}}

RegionCallInputs == call \in RegionCalls

---------------------------------------------------------------------------

(* validate_cets (validation/validation.py) on a loaded dataset            *)
(* dictionary: whether it is valid against the Dataset model, and its      *)
(* regions.  A region's tomograms and annotations are None (present =      *)
(* FALSE) or a list.                                                       *)

(* dict_to_cets_model (cets_utils.py): the ValidationError is caught and   *)
(* printed there, and None is returned                                     *)
dict_to_cets_model(valid) ==
    IF valid
    THEN [raised |-> FALSE, cets_model |-> "Dataset", printed |-> <<>>]
    ELSE [raised |-> FALSE, cets_model |-> "None", printed |-> <<"Validation error">>]

(* validate_cets_annotations, run to its end *)
RECURSIVE validate_cets_annotations_from(_, _, _)
validate_cets_annotations_from(run, tomograms, annotations) ==
    IF run.status # "running" THEN run
    ELSE validate_cets_annotations_from(
             validate_cets_annotations_turn(
                 run, tomograms, annotations,
                 validate_with_tomogram(annotations[run.a], tomograms[run.t])),
             tomograms, annotations)

validate_cets_annotations(tomograms, annotations) ==
    validate_cets_annotations_from(
        start_validate_cets_annotations(tomograms, annotations),
        tomograms, annotations)

(* the loop over dataset_dict["regions"], from region i on: runs lists the *)
(* calls of validate_cets_annotations made                                 *)
RECURSIVE validate_cets_regions(_, _, _)
validate_cets_regions(regions, i, runs) ==
    IF i > Len(regions) THEN [ok |-> TRUE, runs |-> runs, exc |-> "", error |-> ""]
    ELSE IF regions[i].tomograms.present /\ regions[i].annotations.present
    THEN LET run == validate_cets_annotations(regions[i].tomograms.items,
                                              regions[i].annotations.items)
             entry == [region |-> i, log |-> run.log]
         IN  IF run.status = "aborted"
             THEN [ok |-> FALSE, runs |-> Append(runs, entry),
                   exc |-> run.exc, error |-> run.error]
             ELSE validate_cets_regions(regions, i + 1, Append(runs, entry))
    ELSE validate_cets_regions(regions, i + 1, runs)

validate_cets(dataset) ==
    LET d == dict_to_cets_model(dataset.valid)
    IN  IF d.raised
        THEN [NotBuilt EXCEPT
                 !.outcome = "returned",
                 !.value = [printed |-> d.printed,
                            log |-> <<"CETS Dataset validation failed">>,
                            runs |-> <<>>]]
        ELSE LET r == validate_cets_regions(dataset.regions, 1, <<>>)
             IN  [NotBuilt EXCEPT
                     !.outcome = IF r.ok THEN "returned" ELSE "raised",
                     !.exc = r.exc, !.error = r.error,
                     !.value = [printed |-> d.printed,
                                log |-> <<"CETS Dataset validation successful">>,
                                runs |-> r.runs]]

None == [present |-> FALSE, items |-> <<>>]

ListOf(items) == [present |-> TRUE, items |-> items]

(* regions without tomograms or annotations, with empty lists, and with   *)
(* one tomogram and one annotation that validates or shares no frame       *)
DatasetRegionPool ==
    {[tomograms |-> t, annotations |-> a] :
        t \in {None, ListOf(<<>>),
               ListOf(<<[width |-> 2, height |-> 1, depth |-> 1,
                         coordinate_systems |-> CsList({VOXEL, PHYSICAL}),
                         coordinate_transformations |->
                             ConverterTomogramTransformations]>>)},
        a \in {None, ListOf(<<>>),
               ListOf(<<PointSet3D(<< <<1, 0, 0>> >>, {VOXEL}, <<>>)>>),
               ListOf(<<PointSet3D(<< <<1, 0, 0>> >>, {ANNOFRAME}, <<>>)>>)}}

DatasetCalls ==
    {[NoCall EXCEPT !.op = "validate_cets",
                    !.args = [dataset |-> [valid |-> v, regions |-> rs]]] :
        v \in BOOLEAN, rs \in SeqsUpTo(DatasetRegionPool, MaxRegions)}

DatasetInputs == call \in DatasetCalls

---------------------------------------------------------------------------

(* create_cets_annotations_from_region_definition (conversion/annotation.py) *)
(* An annotation definition carries its label, its annotation_type and     *)
(* default_coordinate_system, and the pixel size and points that           *)
(* get_coordinates_and_units_from_star_json reads from its file.           *)

UnboundLocalError == "UnboundLocalError"

(* the local variable cets_annotation_dict before its first assignment *)
Unbound ==
    [origin3D |-> <<>>, coordinate_systems |-> <<>>,
     coordinate_transformations |-> <<>>, path |-> <<>>, type |-> "unbound"]

(* make_local_data_path(accession_id, file_type="star", file_label=label), *)
(* which load_and_filter_annotation_star_file returns                      *)
annotation_json_path_of(label) == <<"star", label>>

(* lines 71-103: the record of a point_set_3D annotation for a tomogram *)
point_set_3D_annotation_dict(coordinate_systems, anno, tomo) ==
    LET f == create_new_annotation_coordinate_system_and_transformations(
                 coordinate_systems, tomo.coordinate_transformations,
                 anno.pixel_size, anno.default_coordinate_system)
    IN  IF f.outcome = "raised"
        THEN [ok |-> FALSE, exc |-> f.exc, error |-> f.error, dict |-> Unbound]
        ELSE [ok |-> TRUE, exc |-> "", error |-> "",
              dict |-> [origin3D |-> anno.origin3D,
                        coordinate_systems |-> f.coordinate_systems,
                        coordinate_transformations |-> f.coordinate_transformations,
                        path |-> annotation_json_path_of(anno.label),
                        type |-> "point_set_3D"]]

(* the loops of lines 68-105, from annotation a and tomogram t on;         *)
(* cets_annotation_dict keeps its value from one turn to the next and is   *)
(* appended at the end of every turn                                       *)
RECURSIVE create_cets_annotations_loop(_, _, _, _, _, _, _)
create_cets_annotations_loop(coordinate_systems, annotations, cets_tomograms, a, t, cets_annotation_dict, cets_annotations) ==
    IF a > Len(annotations)
    THEN [NotBuilt EXCEPT !.outcome = "returned", !.value = cets_annotations]
    ELSE IF t > Len(cets_tomograms)
    THEN create_cets_annotations_loop(
             coordinate_systems, annotations, cets_tomograms, a + 1, 1,
             cets_annotation_dict, cets_annotations)
    ELSE IF annotations[a].annotation_type = "point_set_3D"
    THEN LET r == point_set_3D_annotation_dict(
                      coordinate_systems, annotations[a], cets_tomograms[t])
         IN  IF ~r.ok THEN BuildRaised(r.exc, r.error)
             ELSE create_cets_annotations_loop(
                      coordinate_systems, annotations, cets_tomograms, a, t + 1,
                      r.dict, Append(cets_annotations, r.dict))
    ELSE IF cets_annotation_dict = Unbound
    THEN BuildRaised(UnboundLocalError, "UnboundLocal")
    ELSE create_cets_annotations_loop(
             coordinate_systems, annotations, cets_tomograms, a, t + 1,
             cets_annotation_dict, Append(cets_annotations, cets_annotation_dict))

create_cets_annotations_from_region_definition(coordinate_systems, annotations, cets_tomograms) ==
    create_cets_annotations_loop(coordinate_systems, annotations, cets_tomograms,
                                 1, 1, Unbound, <<>>)

(* definitions of two labels, of type point_set_3D or another, with a      *)
(* frame name or a pixel size                                              *)
AnnotationDefinitionPool ==
    {[label |-> l, annotation_type |-> ty, default_coordinate_system |-> f[1],
      pixel_size |-> f[2], origin3D |-> << <<1, 0, 0>> >>] :
        l \in {"particles", "ribosomes"},
        ty \in {"point_set_3D", "segmentation_mask"},
        f \in {<<VOXEL, <<>> >>, <<"", <<2, 2, 2>> >>}}

(* converted tomograms, told apart by their scale *)
CetsTomogramPool ==
    {[width |-> 2, height |-> 2, depth |-> 2,
      coordinate_systems |-> CsList({VOXEL, PHYSICAL}),
      coordinate_transformations |-> <<ScaleTransformation(VOXEL, PHYSICAL, s)>>] :
        s \in {<<1, 1, 1>>, <<2, 2, 2>>}}

AnnotationRegionCalls ==
    {[NoCall EXCEPT !.op = "create_cets_annotations_from_region_definition",
                    !.args = [annotations |-> ads, cets_tomograms |-> ts]] :
        ads \in SeqsUpTo(AnnotationDefinitionPool, MaxAnnotations),
        ts \in SeqsUpTo(CetsTomogramPool, MaxTomograms)}

AnnotationRegionInputs == call \in AnnotationRegionCalls

---------------------------------------------------------------------------

(* Cached metadata loading (empiar_to_cets/utils/metadata_utils.py and     *)
(* annotation_utils.py).  The file system is the cache directory, one path *)
(* per file type and label, and the temporary files of the downloads.  A   *)
(* cache file is absent, complete, or partial when a save that failed left *)
(* it behind.  env tells how the download, the parsing and the saving of   *)
(* one call end.                                                           *)

FileTypes == {"mdoc", "xf", "star"}

FileLabels == {"label_1", "label_2"}

(* make_local_data_path(accession_id, file_type, file_label) *)
make_local_data_path(file_type, file_label) == <<file_type, file_label>>

CachePaths == {make_local_data_path(ty, l) : ty \in FileTypes, l \in FileLabels}

NoLoad ==
    [loader |-> "", path |-> <<>>, cached_before |-> FALSE, downloaded |-> FALSE,
     outcome |-> "none"]

EmptyFs ==
    [cache |-> [p \in CachePaths |-> "absent"], temp |-> {}, made |-> 0,
     last |-> NoLoad]

(* tempfile.mkstemp and urlretrieve: the temporary file is removed again   *)
(* when the download fails                                                 *)
download_file_from_empiar(f, env) ==
    LET local_path == f.made + 1
    IN  IF env.download_ok
        THEN [ok |-> TRUE, local_path |-> local_path,
              fs |-> [f EXCEPT !.made = local_path, !.temp = @ \cup {local_path}]]
        ELSE [ok |-> FALSE, local_path |-> 0,
              fs |-> [f EXCEPT !.made = local_path]]

(* the body of the try: parse the temporary file, save the result at the   *)
(* cache path                                                              *)
parse_and_save(f, local_data_path, env) ==
    IF ~env.parse_ok THEN [ok |-> FALSE, fs |-> f]
    ELSE IF ~env.save_ok
    THEN [ok |-> FALSE,
          fs |-> IF env.save_left_file
                 THEN [f EXCEPT !.cache[local_data_path] = "partial"]
                 ELSE f]
    ELSE [ok |-> TRUE, fs |-> [f EXCEPT !.cache[local_data_path] = "complete"]]

(* variant: the temporary file is deleted after a successful save only *)
parse_and_save_then_unlink_on_success(f, local_data_path, temp_path, env) ==
    LET r == parse_and_save(f, local_data_path, env)
    IN  IF r.ok THEN [r EXCEPT !.fs.temp = @ \ {temp_path}] ELSE r

(* try: ... finally: Path(temp_path).unlink() *)
parse_and_save_then_unlink(f, local_data_path, temp_path, env) ==
    LET r == parse_and_save(f, local_data_path, env)
    IN  [r EXCEPT !.fs.temp = @ \ {temp_path}]

(* what the three loaders share; reads_cache: the cache file is read back  *)
(* on a hit (the star loader returns its path only).  last.downloaded      *)
(* tells that download_file_from_empiar was called.                        *)
load_with_cache(f, loader, file_type, file_label, reads_cache, env) ==
    LET local_data_path == make_local_data_path(file_type, file_label)
        e0 == [NoLoad EXCEPT !.loader = loader, !.path = local_data_path]
    IN  IF f.cache[local_data_path] # "absent"
        THEN [f EXCEPT !.last =
                 [e0 EXCEPT !.cached_before = TRUE,
                            !.outcome =
                                IF reads_cache /\ f.cache[local_data_path] = "partial"
                                THEN "raised" ELSE "returned"]]
        ELSE LET d == download_file_from_empiar(f, env)
             IN  IF ~d.ok
                 THEN [d.fs EXCEPT !.last = [e0 EXCEPT !.downloaded = TRUE,
                                                       !.outcome = "raised"]]
                 ELSE LET r == parse_and_save_then_unlink(
                                   d.fs, local_data_path, d.local_path, env)
                      IN  [r.fs EXCEPT !.last =
                              [e0 EXCEPT !.downloaded = TRUE,
                                         !.outcome = IF r.ok THEN "returned"
                                                     ELSE "raised"]]

load_mdoc_file(f, mdoc_label, env) ==
    load_with_cache(f, "load_mdoc_file", "mdoc", mdoc_label, TRUE, env)

load_xf_file(f, xf_label, env) ==
    load_with_cache(f, "load_xf_file", "xf", xf_label, TRUE, env)

load_and_filter_annotation_star_file(f, star_label, env) ==
    load_with_cache(f, "load_and_filter_annotation_star_file", "star", star_label,
                    FALSE, env)

Environments ==
    [download_ok : BOOLEAN, parse_ok : BOOLEAN, save_ok : BOOLEAN,
     save_left_file : BOOLEAN]

LoaderCalls == {[NoCall EXCEPT !.op = "load_metadata"]}

LoaderInputs == call \in LoaderCalls

---------------------------------------------------------------------------
(* State machine.  Either one annotation/tomogram pair is handed to the    *)
(* validator and to the thumbnail engine, or a region is handed to the     *)
(* validation workflow or to the thumbnail workflow, or one function of    *)
(* the conversion is called, or the cached loaders are called one after    *)
(* the other.                                                              *)

Init ==
    /\ registry = COORDINATE_SYSTEMS
    /\ built = NotBuilt
    /\ fs = EmptyFs
    /\ \/ /\ (FrameInputs \/ PointInputs \/ ManyPointInputs)
          /\ validated = NotCalled
          /\ thumb = ThumbNotCalled
          /\ region = NoRegion
          /\ vrun = NoRun
          /\ trun = NoThumbnailRun
          /\ call = NoCall
       \/ /\ RegionInputs
          /\ \/ /\ vrun = start_validate_cets_annotations(
                             region.tomograms, region.annotations)
                /\ trun = NoThumbnailRun
             \/ /\ vrun = NoRun
                /\ trun = start_process_tomogram_thumbnail(region.tomograms)
          /\ annotation = NoAnnotation
          /\ tomogram = NoTomogram
          /\ validated = NotCalled
          /\ thumb = ThumbNotCalled
          /\ call = NoCall
       \/ /\ (ConverterInputs \/ ProjectionInputs \/ MdocInputs
              \/ TiltSeriesInputs \/ RegionCallInputs \/ DatasetInputs
              \/ AnnotationRegionInputs \/ LoaderInputs)
          /\ annotation = NoAnnotation
          /\ tomogram = NoTomogram
          /\ validated = NotCalled
          /\ thumb = ThumbNotCalled
          /\ region = NoRegion
          /\ vrun = NoRun
          /\ trun = NoThumbnailRun

(* variant: the transformed points are written back into the annotation *)
Validate_in_place ==
    /\ annotation # NoAnnotation
    /\ validated.outcome = "none"
    /\ validated' = validate_with_tomogram(annotation, tomogram)
    /\ annotation' =
          IF validated'.transformed_coords # <<>>
          THEN [annotation EXCEPT !.origin3D = validated'.transformed_coords]
          ELSE annotation
    /\ UNCHANGED <<tomogram, thumb>>
    /\ UNCHANGED workflow_vars
    /\ UNCHANGED cache_vars
    /\ UNCHANGED converter_vars

Validate ==
    /\ annotation # NoAnnotation
    /\ validated.outcome = "none"
    /\ validated' = validate_with_tomogram(annotation, tomogram)
    /\ UNCHANGED <<annotation, tomogram, thumb>>
    /\ UNCHANGED workflow_vars
    /\ UNCHANGED cache_vars
    /\ UNCHANGED converter_vars

Thumbnail ==
    /\ annotation # NoAnnotation
    /\ thumb.outcome = "none"
    /\ thumb' = get_transformed_annotation_coordinates(annotation, tomogram)
    /\ UNCHANGED <<annotation, tomogram, validated>>
    /\ UNCHANGED workflow_vars
    /\ UNCHANGED cache_vars
    /\ UNCHANGED converter_vars

(* validate_cets_annotations: the next annotation/tomogram pair *)
ValidatePair ==
    /\ vrun.status = "running"
    /\ vrun' = validate_cets_annotations_turn(
                   vrun, region.tomograms, region.annotations,
                   validate_with_tomogram(region.annotations[vrun.a],
                                          region.tomograms[vrun.t]))
    /\ UNCHANGED <<region, trun>>
    /\ UNCHANGED pair_vars
    /\ UNCHANGED converter_vars
    /\ UNCHANGED cache_vars

(* process_tomogram_thumbnail: the next annotation of the current tomogram *)
ProjectAnnotation ==
    /\ trun.status = "running"
    /\ trun.a <= Len(region.annotations)
    /\ trun' = process_tomogram_thumbnail_turn(
                   trun,
                   get_transformed_annotation_coordinates(
                       region.annotations[trun.a], region.tomograms[trun.t]))
    /\ UNCHANGED <<region, vrun>>
    /\ UNCHANGED pair_vars
    /\ UNCHANGED converter_vars
    /\ UNCHANGED cache_vars

(* process_tomogram_thumbnail: past the last annotation of the tomogram *)
SaveThumbnails ==
    /\ trun.status = "running"
    /\ trun.a > Len(region.annotations)
    /\ trun' = process_tomogram_thumbnail_save(trun, region.tomograms)
    /\ UNCHANGED <<region, vrun>>
    /\ UNCHANGED pair_vars
    /\ UNCHANGED converter_vars
    /\ UNCHANGED cache_vars

BuildTransformation ==
    /\ call.op = "make_coordinate_transformation"
    /\ built.outcome = "none"
    /\ LET t == make_coordinate_transformation(
                    call.type, call.input_cs, call.output_cs, call.params)
       IN  built' = IF t.ok
                    THEN [NotBuilt EXCEPT !.outcome = "returned",
                                          !.transformation = t.transformation]
                    ELSE BuildRaised(t.exc, t.error)
    /\ UNCHANGED <<registry, call>>
    /\ UNCHANGED pair_vars
    /\ UNCHANGED workflow_vars
    /\ UNCHANGED cache_vars

ConvertTomogram ==
    /\ call.op = "create_cets_tomogram"
    /\ built.outcome = "none"
    /\ built' = create_cets_tomogram(registry, call.header)
    /\ UNCHANGED <<registry, call>>
    /\ UNCHANGED pair_vars
    /\ UNCHANGED workflow_vars
    /\ UNCHANGED cache_vars

ConvertAnnotationFrames ==
    /\ call.op = "create_new_annotation_coordinate_system_and_transformations"
    /\ built.outcome = "none"
    /\ built' = create_new_annotation_coordinate_system_and_transformations(
                    registry, call.tomogram_transformations, call.pixel_size,
                    call.annotation_default_coordinate_system)
    /\ UNCHANGED <<registry, call>>
    /\ UNCHANGED pair_vars
    /\ UNCHANGED workflow_vars
    /\ UNCHANGED cache_vars

ProjectCoordinates ==
    /\ call.op = "project_and_scale_coordinates"
    /\ built.outcome = "none"
    /\ built' = [NotBuilt EXCEPT
                    !.outcome = "returned",
                    !.value =
                        [current |-> project_and_scale_coordinates(
                                         call.args.coordinates, call.args.tomogram_shape,
                                         call.args.thumbnail_size, call.args.limit_annotation),
                         legacy |-> legacy_project_and_scale_coordinates(
                                        call.args.coordinates, call.args.tomogram_shape,
                                        call.args.thumbnail_size, call.args.limit_annotation)]]
    /\ UNCHANGED <<registry, call>>
    /\ UNCHANGED pair_vars
    /\ UNCHANGED workflow_vars
    /\ UNCHANGED cache_vars

ParseMdoc ==
    /\ call.op = "parse_mdoc_file"
    /\ built.outcome = "none"
    /\ built' = [NotBuilt EXCEPT !.outcome = "returned",
                                 !.value = parse_mdoc_file(call.args.lines)]
    /\ UNCHANGED <<registry, call>>
    /\ UNCHANGED pair_vars
    /\ UNCHANGED workflow_vars
    /\ UNCHANGED cache_vars

ConvertTiltSeries ==
    /\ call.op = "create_cets_tilt_and_movie_families_with_metadata"
    /\ built.outcome = "none"
    /\ built' = create_cets_tilt_and_movie_families_with_metadata(
                    call.args.region_name, call.args.is_single_stack_file,
                    call.args.z_sections)
    /\ UNCHANGED <<registry, call>>
    /\ UNCHANGED pair_vars
    /\ UNCHANGED workflow_vars
    /\ UNCHANGED cache_vars

(* the converted tomogram and annotation become the pair that the          *)
(* validator and the thumbnail engine are handed                           *)
PopulateRegion ==
    /\ call.op = "populate_cets_region"
    /\ built.outcome = "none"
    /\ LET r == populate_cets_region(registry, call.header, call.args.origin3D,
                                     call.pixel_size,
                                     call.annotation_default_coordinate_system)
       IN  /\ built' = r.built
           /\ tomogram' = r.tomogram
           /\ annotation' = r.annotation
    /\ UNCHANGED <<registry, call, validated, thumb>>
    /\ UNCHANGED workflow_vars
    /\ UNCHANGED cache_vars

ValidateCets ==
    /\ call.op = "validate_cets"
    /\ built.outcome = "none"
    /\ built' = validate_cets(call.args.dataset)
    /\ UNCHANGED <<registry, call>>
    /\ UNCHANGED pair_vars
    /\ UNCHANGED workflow_vars
    /\ UNCHANGED cache_vars

ConvertAnnotations ==
    /\ call.op = "create_cets_annotations_from_region_definition"
    /\ built.outcome = "none"
    /\ built' = create_cets_annotations_from_region_definition(
                    registry, call.args.annotations, call.args.cets_tomograms)
    /\ UNCHANGED <<registry, call>>
    /\ UNCHANGED pair_vars
    /\ UNCHANGED workflow_vars
    /\ UNCHANGED cache_vars

(* one call of a cached loader; each download makes a new temporary file *)
LoadMdocFile ==
    /\ call.op = "load_metadata"
    /\ fs.made < MaxDownloads
    /\ \E l \in FileLabels, env \in Environments : fs' = load_mdoc_file(fs, l, env)
    /\ UNCHANGED converter_vars
    /\ UNCHANGED pair_vars
    /\ UNCHANGED workflow_vars

LoadXfFile ==
    /\ call.op = "load_metadata"
    /\ fs.made < MaxDownloads
    /\ \E l \in FileLabels, env \in Environments : fs' = load_xf_file(fs, l, env)
    /\ UNCHANGED converter_vars
    /\ UNCHANGED pair_vars
    /\ UNCHANGED workflow_vars

LoadAnnotationStarFile ==
    /\ call.op = "load_metadata"
    /\ fs.made < MaxDownloads
    /\ \E l \in FileLabels, env \in Environments :
          fs' = load_and_filter_annotation_star_file(fs, l, env)
    /\ UNCHANGED converter_vars
    /\ UNCHANGED pair_vars
    /\ UNCHANGED workflow_vars

Next ==
    \/ Validate
    \/ Thumbnail
    \/ ValidatePair
    \/ ProjectAnnotation
    \/ SaveThumbnails
    \/ BuildTransformation
    \/ ConvertTomogram
    \/ ConvertAnnotationFrames
    \/ ProjectCoordinates
    \/ ParseMdoc
    \/ ConvertTiltSeries
    \/ PopulateRegion
    \/ ValidateCets
    \/ ConvertAnnotations
    \/ LoadMdocFile
    \/ LoadXfFile
    \/ LoadAnnotationStarFile

Spec == Init /\ [][Next]_vars

---------------------------------------------------------------------------
(* Vocabulary of the properties *)

AnnoFrames ==
    {annotation.coordinate_systems[i].name : i \in DOMAIN annotation.coordinate_systems}

TomoFrames ==
    {tomogram.coordinate_systems[i].name : i \in DOMAIN tomogram.coordinate_systems}

SharedFrames == AnnoFrames \cap TomoFrames

Points == annotation.origin3D

Trs == annotation.coordinate_transformations

ValidatorCalled == validated.outcome # "none"

ThumbCalled == thumb.outcome # "none"

FramesDeclared ==
    annotation.coordinate_systems # <<>> /\ tomogram.coordinate_systems # <<>>

(* Case A: no transformation on the annotation *)
CaseA == FramesDeclared /\ Points # <<>> /\ Trs = <<>>

(* Case B: the annotation declares transformations *)
CaseB == FramesDeclared /\ Points # <<>> /\ Trs # <<>>

(* one endpoint in the volume's frames, the other in the annotation's *)
Qualifies(t) ==
    \/ (t.input \in TomoFrames /\ t.output \in AnnoFrames)
    \/ (t.input \in AnnoFrames /\ t.output \in TomoFrames)

Qualifying == {i \in DOMAIN Trs : Qualifies(Trs[i])}

FirstQualifying == CHOOSE i \in Qualifying : \A j \in Qualifying : i <= j

Scaled(pts, s) ==
    [i \in DOMAIN pts |-> <<pts[i][1] * s[1], pts[i][2] * s[2], pts[i][3] * s[3]>>]

(* the validator got past _get_transformed_coordinates *)
ValidatorResolved == ValidatorCalled /\ validated.transformed_coords # <<>>

---------------------------------------------------------------------------
(* C1: with no transformation on the annotation and more than one frame    *)
(* name shared with the volume, reconciliation fails with AmbiguousFrame:  *)
(* no shared frame is picked and no points are returned.                   *)
C1_AmbiguityDetected ==
    (CaseA /\ Cardinality(SharedFrames) > 1) =>
        /\ ValidatorCalled =>
             /\ validated.outcome = "raised"
             /\ validated.error = AmbiguousFrame
             /\ validated.target_cs_name = ""
             /\ validated.transformed_coords = <<>>
        /\ ThumbCalled =>
             /\ thumb.outcome = "raised"
             /\ thumb.error = AmbiguousFrame
             /\ thumb.coordinates = <<>>

C1_Witness ==
    /\ CaseA /\ Cardinality(SharedFrames) > 1
    /\ ValidatorCalled /\ ThumbCalled

(* C2: in Case B the target frame the validator resolves is the endpoint   *)
(* of the selected transformation that belongs to the volume's frames,     *)
(* whichever way the transformation is declared.                           *)
C2_TargetIsVolumeEndpoint ==
    (CaseB /\ ValidatorResolved) =>
        /\ validated.target_cs_name \in
               {validated.transformation.input, validated.transformation.output}
        /\ validated.target_cs_name \in TomoFrames

(* C3: a point is reported out of bounds exactly when some coordinate is   *)
(* below 0 or at or above the bound of its axis (exclusive upper bound).   *)
C3_ExclusiveUpperBound ==
    (ValidatorCalled /\ validated.bounds # <<>>) =>
        {validated.out_of_bounds[k][1] : k \in DOMAIN validated.out_of_bounds}
          = {i - 1 : i \in {j \in DOMAIN validated.transformed_coords :
                \E ax \in 1..3 :
                   \/ validated.transformed_coords[j][ax] < 0
                   \/ validated.transformed_coords[j][ax] >= validated.bounds[ax][2]}}

(* C4: in Case B the transformations are scanned in declaration order and  *)
(* the first qualifying one is selected; when none qualifies the           *)
(* reconciliation fails with NoBridgingTransformation.                     *)
C4_FirstBridgingWins ==
    CaseB =>
        /\ ValidatorCalled =>
             IF Qualifying = {}
             THEN /\ validated.outcome = "raised"
                  /\ validated.error = NoBridgingTransformation
                  /\ validated.transformed_coords = <<>>
             ELSE /\ validated.transformation = Trs[FirstQualifying]
                  /\ validated.error # NoBridgingTransformation
        /\ ThumbCalled =>
             IF Qualifying = {}
             THEN /\ thumb.outcome = "raised"
                  /\ thumb.error = NoBridgingTransformation
             ELSE /\ thumb.error # NoBridgingTransformation
                  /\ thumb.outcome = "returned" =>
                       thumb.coordinates = Scaled(Points, Trs[FirstQualifying].scale)

C4_Witness ==
    /\ CaseB /\ ValidatorCalled /\ ThumbCalled
    /\ Cardinality(Qualifying) = 2
    /\ Trs[1].scale # Trs[2].scale
    /\ Trs[1].input # Trs[2].input
    /\ thumb.outcome = "returned"

(* C5: a single scale transformation declared volume-frame to annotation-  *)
(* frame, or the reverse, bridges: the validator's reconciliation (up to   *)
(* the lookup of the target frame) and the thumbnail engine's both         *)
(* succeed, with the points multiplied by the declared scale.              *)
C5_BothDirectionsBridge ==
    (CaseB /\ Len(Trs) = 1 /\ Trs[1].transformation_type = "scale" /\ Qualifies(Trs[1])) =>
        /\ ValidatorCalled =>
             /\ validated.error \in {"", OutOfBounds}
             /\ validated.transformed_coords = Scaled(Points, Trs[1].scale)
        /\ ThumbCalled =>
             /\ thumb.outcome = "returned"
             /\ thumb.coordinates = Scaled(Points, Trs[1].scale)

(* C6: in Case A with exactly one shared frame name, the points come back  *)
(* unchanged, in the same order, and the target frame is the shared frame. *)
C6_CaseAIdentity ==
    (CaseA /\ Cardinality(SharedFrames) = 1) =>
        /\ ValidatorCalled =>
             /\ validated.transformed_coords = Points
             /\ validated.target_cs_name \in SharedFrames
             /\ validated.error \in {"", OutOfBounds}
        /\ ThumbCalled =>
             /\ thumb.outcome = "returned"
             /\ thumb.coordinates = Points

C6_Witness ==
    /\ CaseA /\ Cardinality(SharedFrames) = 1
    /\ Len(Points) >= 2 /\ Points[1] # Points[2]
    /\ ValidatorCalled /\ ThumbCalled

(* C7: when a scale transformation (sx, sy, sz) is selected, the result    *)
(* has the length and order of the input and every point (x, y, z) has     *)
(* become (x*sx, y*sy, z*sz).                                              *)
C7_ScaleCorrectness ==
    /\ (CaseB /\ ValidatorCalled /\ validated.transformation.transformation_type = "scale") =>
          /\ Len(validated.transformed_coords) = Len(Points)
          /\ \A i \in DOMAIN Points :
                validated.transformed_coords[i] =
                  <<Points[i][1] * validated.transformation.scale[1],
                    Points[i][2] * validated.transformation.scale[2],
                    Points[i][3] * validated.transformation.scale[3]>>
    /\ (CaseB /\ thumb.outcome = "returned") =>
          /\ Len(thumb.coordinates) = Len(Points)
          /\ \E k \in DOMAIN Trs :
                /\ Trs[k].transformation_type = "scale"
                /\ \A i \in DOMAIN Points :
                      thumb.coordinates[i] =
                        <<Points[i][1] * Trs[k].scale[1],
                          Points[i][2] * Trs[k].scale[2],
                          Points[i][3] * Trs[k].scale[3]>>

C7_Witness ==
    /\ CaseB /\ ValidatorCalled /\ thumb.outcome = "returned"
    /\ validated.transformation.scale = <<1, 2, 3>>
    /\ \E i \in DOMAIN Points : Points[i][2] # 0 /\ Points[i][3] # 0

(* C8: with no transformation on the annotation and no frame name shared   *)
(* with the volume, reconciliation fails with NoCommonFrame and returns no *)
(* points.                                                                 *)
C8_NoCommonFrameDetected ==
    (CaseA /\ SharedFrames = {}) =>
        /\ ValidatorCalled =>
             /\ validated.outcome = "raised"
             /\ validated.error = NoCommonFrame
             /\ validated.transformed_coords = <<>>
        /\ ThumbCalled =>
             /\ thumb.outcome = "raised"
             /\ thumb.error = NoCommonFrame
             /\ thumb.coordinates = <<>>

C8_Witness ==
    /\ CaseA /\ SharedFrames = {}
    /\ ValidatorCalled /\ ThumbCalled

C10_BoundsDerivation ==
    /\ (ValidatorCalled /\ validated.bounds # <<>>) =>
          IF validated.target_cs_name = VOXEL
          THEN validated.bounds =
                 << <<0, tomogram.width>>, <<0, tomogram.height>>, <<0, tomogram.depth>> >>
          ELSE \E k \in DOMAIN tomogram.coordinate_transformations :
                 LET t == tomogram.coordinate_transformations[k]
                 IN  /\ t.output = validated.target_cs_name
                     /\ t.transformation_type = "scale"
                     /\ \A j \in 1..(k - 1) :
                           tomogram.coordinate_transformations[j].output
                               # validated.target_cs_name
                     /\ validated.bounds =
                          << <<0, tomogram.width * t.scale[1]>>,
                             <<0, tomogram.height * t.scale[2]>>,
                             <<0, tomogram.depth * t.scale[3]>> >>
    /\ ( /\ ValidatorCalled
         /\ Points = ScenarioPoints
         /\ <<tomogram.width, tomogram.height, tomogram.depth>> = ScenarioExtent
         /\ AnnoFrames = {VOXEL} /\ TomoFrames = {VOXEL, PHYSICAL}
         /\ Trs = <<ScaleTransformation(VOXEL, PHYSICAL, <<2, 2, 2>>)>>
         /\ tomogram.coordinate_transformations
               = <<ScaleTransformation(VOXEL, PHYSICAL, <<2, 2, 2>>)>> ) =>
          /\ validated.bounds = << <<0, 20>>, <<0, 20>>, <<0, 20>> >>
          /\ validated.out_of_bounds = << <<0, <<30, 4, 6>> >> >>
          /\ validated.outcome = "raised"

C10_Witness ==
    /\ ValidatorCalled /\ validated.bounds # <<>>
    /\ validated.target_cs_name = PHYSICAL
    /\ validated.transformation.scale = <<1, 2, 3>>
    /\ Len(tomogram.coordinate_transformations) = 2
    /\ validated.out_of_bounds # <<>>

C10_ScenarioReached ==
    /\ ValidatorCalled
    /\ Points = ScenarioPoints
    /\ AnnoFrames = {VOXEL} /\ TomoFrames = {VOXEL, PHYSICAL}
    /\ Trs = <<ScaleTransformation(VOXEL, PHYSICAL, <<2, 2, 2>>)>>

(* C11: when the validator's target frame is a physically-scaled frame of  *)
(* the volume and the volume has no scale transformation whose output is   *)
(* that frame, the call fails: the annotation is not returned as           *)
(* validated.                                                              *)
C11_BoundsUndeterminedFails ==
    ( /\ ValidatorCalled
      /\ validated.target_cs_name \in TomoFrames
      /\ ~contains_voxel(validated.target_cs_name)
      /\ \A k \in DOMAIN tomogram.coordinate_transformations :
            ~( /\ tomogram.coordinate_transformations[k].output
                     = validated.target_cs_name
               /\ tomogram.coordinate_transformations[k].transformation_type = "scale" ) )
        => validated.outcome = "raised"

(* a point violates the bounds when some coordinate is below 0 or at or    *)
(* above the bound of its axis (section 4.4 of the specification)          *)
Violating(p, bounds) ==
    \E ax \in 1..3 : p[ax] < 0 \/ p[ax] >= bounds[ax][2]

(* C12: the bounds check returns one (index, point) entry per violating    *)
(* point, in input order, the index being the point's position in the      *)
(* point sequence; the list is empty iff every point is valid.             *)
C12_OneEntryPerViolatingPoint ==
    (ValidatorCalled /\ validated.bounds # <<>>) =>
        LET V == validated.out_of_bounds
            pts == validated.transformed_coords
            b == validated.bounds
        IN  /\ \A k \in DOMAIN V :
                  /\ V[k][1] \in 0..(Len(pts) - 1)
                  /\ V[k][2] = pts[V[k][1] + 1]
            /\ \A k \in 1..(Len(V) - 1) : V[k][1] < V[k + 1][1]
            /\ \A i \in DOMAIN pts :
                  Violating(pts[i], b) <=> (\E k \in DOMAIN V : V[k][1] = i - 1)
            /\ (V = <<>>) <=> (\A i \in DOMAIN pts : ~Violating(pts[i], b))

(* C13: any bounds violation is a hard failure: the validator raises       *)
(* whenever the violation list is nonempty, and the error spells out the   *)
(* first 5 offending points at most, with their indices, followed, when    *)
(* there are more than 5, by the count of the others (violations - 5).     *)
C13_ViolationsAreHardFailure ==
    ValidatorCalled =>
        LET V == validated.out_of_bounds
            m == validated.error_msg
        IN  /\ (V # <<>>) <=> (validated.outcome = "raised" /\ validated.error = OutOfBounds)
            /\ (V # <<>>) =>
                  /\ validated.exc = ValueError
                  /\ m.found = Len(V)
                  /\ Len(m.points) <= 5
                  /\ Len(m.points) = (IF Len(V) < 5 THEN Len(V) ELSE 5)
                  /\ \A k \in DOMAIN m.points : m.points[k] = V[k]
                  /\ m.more = (IF Len(V) > 5 THEN <<Len(V) - 5>> ELSE <<>>)
            /\ (V = <<>>) => m = NoMessage

C13_Witness ==
    /\ ValidatorCalled
    /\ validated.error = OutOfBounds
    /\ Len(validated.out_of_bounds) = 6
    /\ validated.out_of_bounds[1][1] = 1
    /\ validated.error_msg.more = <<1>>

(* C14: the validation workflow processes every annotation/tomogram pair   *)
(* of a region: a failure of one pair, of whatever kind, is reported and   *)
(* the remaining pairs are still validated; the run is never aborted.      *)
C14_EveryPairValidated ==
    /\ vrun.status # "aborted"
    /\ vrun.status = "done" =>
          \A t \in DOMAIN region.tomograms, a \in DOMAIN region.annotations :
             \E k \in DOMAIN vrun.log : vrun.log[k].t = t /\ vrun.log[k].a = a

(* C15: in the thumbnail workflow an annotation whose reconciliation fails *)
(* with NoCommonFrame is skipped: the workflow is not aborted, and the     *)
(* thumbnails of that tomogram and of the remaining ones are still saved.  *)
C15_NoCommonFrameSkipped ==
    (\A t \in DOMAIN region.tomograms, a \in DOMAIN region.annotations :
        LET r == get_transformed_annotation_coordinates(
                     region.annotations[a], region.tomograms[t])
        IN  r.outcome = "returned" \/ r.error = NoCommonFrame)
      => /\ trun.status # "aborted"
         /\ trun.status = "done" =>
               \A t \in DOMAIN region.tomograms :
                  \E k \in DOMAIN trun.saved : trun.saved[k].t = t

(* a scale of exactly 3 components, none of them zero *)
NonzeroScale(t) ==
    /\ Len(t.scale) = 3
    /\ \A ax \in 1..3 : t.scale[ax] # 0

(* C16: zero scale is never produced: every scale transformation the       *)
(* transformation builder returns, and every one an entity converter       *)
(* attaches to a volume or to an annotation, has exactly 3 nonzero         *)
(* components.                                                             *)
C16_NoZeroScale ==
    built.outcome = "returned" =>
        /\ built.transformation.transformation_type = "scale" =>
              NonzeroScale(built.transformation)
        /\ \A k \in DOMAIN built.coordinate_transformations :
              built.coordinate_transformations[k].transformation_type = "scale" =>
                  NonzeroScale(built.coordinate_transformations[k])

(* the same, for the tomogram converter alone *)
C16_TomogramConverterNoZeroScale ==
    (call.op = "create_cets_tomogram" /\ built.outcome = "returned") =>
        \A k \in DOMAIN built.coordinate_transformations :
            NonzeroScale(built.coordinate_transformations[k])

(* C17: the reconciliation and the bounds check only read their inputs:    *)
(* across any call of the validator or of the thumbnail engine, successful *)
(* or failing, the annotation's points, frames and transformations, the    *)
(* volume's extent, frames and transformations, and the coordinate-system  *)
(* registry are unchanged.                                                 *)
C17_InputsOnlyRead ==
    [][ (validated' # validated \/ thumb' # thumb) =>
           /\ annotation' = annotation
           /\ tomogram' = tomogram
           /\ registry' = registry ]_vars

C17_Witness ==
    /\ validated.outcome = "raised" /\ validated.error = OutOfBounds
    /\ validated.transformed_coords # Points
    /\ thumb.outcome = "returned"
    /\ thumb.coordinates # Points
    /\ registry = COORDINATE_SYSTEMS

BuilderCalled == call.op = "make_coordinate_transformation" /\ built.outcome # "none"

(* C18: building a scale fails with InvalidParameters whenever the scale   *)
(* does not have exactly 3 components, and no transformation is produced;  *)
(* with exactly 3 components the result is a scale transformation carrying *)
(* the given input frame, output frame and scale.                          *)
C18_ScaleNeedsThreeComponents ==
    (BuilderCalled /\ call.type = "scale") =>
        IF Len(call.params[1]) # 3
        THEN /\ built.outcome = "raised"
             /\ built.error = InvalidParameters
             /\ built.transformation = NoTransformation
        ELSE /\ built.outcome = "returned"
             /\ built.transformation.transformation_type = "scale"
             /\ built.transformation.input = call.input_cs
             /\ built.transformation.output = call.output_cs
             /\ built.transformation.scale = call.params[1]

C18_Witness ==
    /\ BuilderCalled /\ call.type = "scale"
    /\ Len(call.params[1]) = 4
    /\ built.outcome = "raised"

(* C19: only the scale kind is supported: the transformation builder fails *)
(* with UnsupportedTransformationKind for any other kind, and              *)
(* reconciliation fails with UnsupportedTransformationKind, returning no   *)
(* points, when the selected bridging transformation is not a scale.       *)
C19_OnlyScaleSupported ==
    /\ (BuilderCalled /\ call.type # "scale") =>
          /\ built.outcome = "raised"
          /\ built.error = UnsupportedTransformationKind
          /\ built.transformation = NoTransformation
    /\ (CaseB /\ Qualifying # {}) =>
          LET selected == Trs[FirstQualifying]
          IN  /\ (ValidatorCalled /\ selected.transformation_type # "scale") =>
                    /\ validated.outcome = "raised"
                    /\ validated.error = UnsupportedTransformationKind
                    /\ validated.transformed_coords = <<>>
              /\ (ThumbCalled /\ selected.transformation_type # "scale") =>
                    /\ thumb.outcome = "raised"
                    /\ thumb.error = UnsupportedTransformationKind
                    /\ thumb.coordinates = <<>>
              /\ (ValidatorCalled /\ selected.transformation_type = "scale") =>
                    validated.error # UnsupportedTransformationKind
              /\ (ThumbCalled /\ selected.transformation_type = "scale") =>
                    thumb.error # UnsupportedTransformationKind

C19_Witness ==
    /\ CaseB /\ Len(Trs) = 2
    /\ Qualifying = {1, 2}
    /\ Trs[1].transformation_type # "scale"
    /\ Trs[2].transformation_type = "scale"
    /\ validated.error = UnsupportedTransformationKind
    /\ thumb.error = UnsupportedTransformationKind

AnnotationFramesCalled ==
    /\ call.op = "create_new_annotation_coordinate_system_and_transformations"
    /\ built.outcome # "none"

(* C20: looking up a frame name that the registry does not hold fails with *)
(* UnknownFrame: for an annotation definition naming such a default        *)
(* coordinate system the converter fails and produces no annotation frame  *)
(* (and no transformation); a name the registry holds does not fail so.    *)
C20_UnknownFrameFails ==
    (AnnotationFramesCalled /\ call.annotation_default_coordinate_system # "") =>
        IF call.annotation_default_coordinate_system \notin DOMAIN registry
        THEN /\ built.outcome = "raised"
             /\ built.error = UnknownFrame
             /\ built.coordinate_systems = <<>>
             /\ built.coordinate_transformations = <<>>
        ELSE /\ built.outcome = "returned"
             /\ built.error # UnknownFrame

C20_Witness ==
    /\ AnnotationFramesCalled
    /\ call.annotation_default_coordinate_system = "voxel"
    /\ call.pixel_size # <<>>
    /\ call.tomogram_transformations # <<>>
    /\ built.outcome = "raised"

ProjectionCalled == call.op = "project_and_scale_coordinates" /\ built.outcome # "none"

(* the positions of the points within the depth window, and the k-th of    *)
(* them in input order                                                     *)
InWindow ==
    {i \in DOMAIN call.args.coordinates :
        abs(2 * call.args.coordinates[i][3] - call.args.tomogram_shape[1])
              * call.args.limit_annotation[2]
           <= 2 * call.args.tomogram_shape[1] * call.args.limit_annotation[1]}

KthInWindow(k) ==
    CHOOSE i \in InWindow : Cardinality({j \in InWindow : j <= i}) = k

(* projected is the points of the window, in input order, with x and y     *)
(* multiplied by thumbnail size / extent                                   *)
IsProjection(projected) ==
    /\ Len(projected) = Cardinality(InWindow)
    /\ \A k \in DOMAIN projected :
          LET p == call.args.coordinates[KthInWindow(k)]
          IN  /\ projected[k][1] * call.args.tomogram_shape[2]
                    = p[1] * call.args.thumbnail_size[1]
              /\ projected[k][2] * call.args.tomogram_shape[3]
                    = p[2] * call.args.thumbnail_size[2]

(* C21: the depth-windowed projection keeps exactly the points with        *)
(* |z - depth/2| <= depth * fraction, in their original order, and scales  *)
(* x and y by thumbnail size / volume extent; no point is rejected for     *)
(* lying outside the volume in x or y.                                     *)
C21_DepthWindowedProjection ==
    ProjectionCalled =>
        /\ IsProjection(built.value.current)
        /\ IsProjection(built.value.legacy)

C21_Witness ==
    /\ ProjectionCalled
    /\ Len(call.args.coordinates) = 2
    /\ InWindow = {2}
    /\ call.args.coordinates[2][1] > call.args.tomogram_shape[2]
    /\ abs(2 * call.args.coordinates[2][3] - call.args.tomogram_shape[1])
             * call.args.limit_annotation[2]
          = 2 * call.args.tomogram_shape[1] * call.args.limit_annotation[1]
    /\ Len(built.value.current) = 1

(* C22: the annotation's frame is derived in a strict priority order: with *)
(* a default coordinate system name (one the registry holds) the result is *)
(* exactly ([that registry frame], []) whatever the pixel size and the     *)
(* tomogram's transformations; otherwise with a pixel size it is the       *)
(* single frame physical_sampling_angstrom with exactly one scale          *)
(* transformation whose output is physical_sampling_angstrom; otherwise    *)
(* it is ([], []).                                                         *)
C22_FramePriorityOrder ==
    AnnotationFramesCalled =>
        LET d == call.annotation_default_coordinate_system
        IN  IF d # ""
            THEN d \in DOMAIN registry =>
                    /\ built.outcome = "returned"
                    /\ built.coordinate_systems = <<registry[d]>>
                    /\ built.coordinate_transformations = <<>>
            ELSE IF call.pixel_size # <<>>
            THEN /\ built.outcome = "returned"
                 /\ built.coordinate_systems = <<registry[PHYSICAL]>>
                 /\ Len(built.coordinate_transformations) = 1
                 /\ built.coordinate_transformations[1].transformation_type = "scale"
                 /\ built.coordinate_transformations[1].output = PHYSICAL
            ELSE /\ built.outcome = "returned"
                 /\ built.coordinate_systems = <<>>
                 /\ built.coordinate_transformations = <<>>

C22_Witness ==
    /\ AnnotationFramesCalled
    /\ call.annotation_default_coordinate_system = VOXEL
    /\ call.pixel_size = <<1, 2, 3>>
    /\ Len(call.tomogram_transformations) = 2
    /\ built.coordinate_systems = <<registry[VOXEL]>>

---------------------------------------------------------------------------
(* .mdoc files as the specification describes them *)

MdocCalled == call.op = "parse_mdoc_file" /\ built.outcome = "returned"

(* what a line of the file is: blank, a [T = ...] line, a [ZValue = n]     *)
(* header, a key=value line, or something else                             *)
LineKind(raw) ==
    CASE raw = "" -> "blank"
      [] raw = "[T = SerialEM: Acquired = today]" -> "comment"
      [] raw \in {"[ZValue = 0]", "[ZValue = 1]"} -> "header"
      [] raw \in {"TiltAngle = 1.5", "  TiltAngle = 3  ", "DateTime = 01-Jan"} -> "pair"
      [] OTHER -> "other"

HeaderNumber(raw) == IF raw = "[ZValue = 0]" THEN 0 ELSE 1

PairKey(raw) == IF raw = "DateTime = 01-Jan" THEN "DateTime" ELSE "TiltAngle"

PairValue(raw) ==
    CASE raw = "TiltAngle = 1.5" -> [type |-> "float", text |-> "1.5"]
      [] raw = "  TiltAngle = 3  " -> [type |-> "int", text |-> "3"]
      [] OTHER -> [type |-> "str", text |-> "01-Jan"]

MdocHeaders(lines) == {i \in 1..Len(lines) : LineKind(lines[i]) = "header"}

(* the index of the first header after line i, past the end if none *)
NextHeader(lines, i) ==
    LET later == {j \in MdocHeaders(lines) : j > i}
    IN  IF later = {} THEN Len(lines) + 1
        ELSE CHOOSE j \in later : \A k \in later : j <= k

(* the key=value lines strictly between lines lo and hi, as a mapping; a   *)
(* key given twice keeps its last value                                    *)
PairsBetween(lines, lo, hi) ==
    LET at == {i \in (lo + 1)..(hi - 1) : LineKind(lines[i]) = "pair"}
        last(k) == CHOOSE i \in at :
                       /\ PairKey(lines[i]) = k
                       /\ \A j \in at : PairKey(lines[j]) = k => j <= i
    IN  [k \in {PairKey(lines[i]) : i \in at} |-> PairValue(lines[last(k)])]

(* the index of the k-th header *)
KthHeader(lines, k) ==
    CHOOSE i \in MdocHeaders(lines) :
        Cardinality({j \in MdocHeaders(lines) : j <= i}) = k

TiltSeriesCalled ==
    /\ call.op = "create_cets_tilt_and_movie_families_with_metadata"
    /\ built.outcome # "none"

(* C24: conversion with metadata produces exactly one movie stack and one  *)
(* tilt image per z-section, in z-section order; tilt image i carries the  *)
(* movie_stack_id of the movie stack built from the same z-section and a   *)
(* section equal to that z-section's z_value, and the tilt series'         *)
(* movie_stack_series_id is the id of the region's movie stack series.     *)
C24_OnePerZSection ==
    (TiltSeriesCalled /\ built.outcome = "returned") =>
        LET z_sections == call.args.z_sections
            series == built.value.movie_stack_collection.movie_stacks
            images == built.value.tilt_series.images
        IN  /\ Len(series) = 1
            /\ Len(series[1].stacks) = Len(z_sections)
            /\ Len(images) = Len(z_sections)
            /\ \A i \in 1..Len(z_sections) :
                  /\ series[1].stacks[i].id =
                         movie_stack_id_of(call.args.region_name, z_sections[i].z_value)
                  /\ images[i].movie_stack_id = series[1].stacks[i].id
                  /\ images[i].section = z_sections[i].z_value
            /\ built.value.tilt_series.movie_stack_series_id = series[1].id

C24_Witness ==
    /\ TiltSeriesCalled
    /\ built.outcome = "returned"
    /\ Len(call.args.z_sections) = 2
    /\ call.args.z_sections[1].z_value = 2
    /\ call.args.z_sections[2].z_value = 1
    /\ built.value.tilt_series.images[1].section = 2
    /\ built.value.tilt_series.images[2].movie_stack_id =
           <<call.args.region_name, "_movie_stack_", 1>>

RegionPopulated ==
    /\ call.op = "populate_cets_region"
    /\ built.outcome = "returned"

ReconciliationErrors == {AmbiguousFrame, NoCommonFrame, NoBridgingTransformation}

(* C25: for every volume produced by the tomogram converter and every      *)
(* annotation produced by the annotation converter with a nonempty frame   *)
(* list, reconciliation never fails with AmbiguousFrame, NoCommonFrame or  *)
(* NoBridgingTransformation, and the resolved target frame is a member of  *)
(* the volume's frame set.                                                 *)
C25_ConvertedPairReconciles ==
    (RegionPopulated /\ annotation.coordinate_systems # <<>>) =>
        /\ validated.outcome # "none" =>
              /\ validated.error \notin ReconciliationErrors
              /\ validated.target_cs_name \in _get_cs_names(tomogram.coordinate_systems)
        /\ thumb.outcome # "none" => thumb.error \notin ReconciliationErrors

C25_Witness ==
    /\ RegionPopulated
    /\ call.pixel_size = <<2, 2, 2>>
    /\ call.annotation_default_coordinate_system = ""
    /\ annotation.coordinate_systems = <<CoordinateSystem(PHYSICAL)>>
    /\ Len(annotation.coordinate_transformations) = 1
    /\ validated.outcome # "none"
    /\ validated.target_cs_name = PHYSICAL
    /\ validated.transformed_coords = << <<2, 0, 0>> >>
    /\ thumb.outcome = "returned"

(* the errors validate_with_tomogram raises about coordinate systems and   *)
(* transformations before it determines the bounds                         *)
PreBoundsErrors ==
    {MissingCoordinateSystem, NoPoints, AmbiguousFrame, NoCommonFrame,
     NoBridgingTransformation, UnsupportedTransformationKind, TargetNotFound}

BothCalled ==
    /\ validated.outcome # "none"
    /\ thumb.outcome # "none"
    /\ annotation.origin3D # <<>>

(* C26: the two implementations of reconciliation agree: for every pair    *)
(* with a nonempty point list, the thumbnail engine returns coordinates if *)
(* and only if the validator raises no coordinate-system or transformation *)
(* error before its bounds stage, and then both use the same coordinates.  *)
C26_ImplementationsAgree ==
    BothCalled =>
        /\ thumb.outcome = "returned" <=> validated.error \notin PreBoundsErrors
        /\ thumb.outcome = "returned" =>
               thumb.coordinates = validated.transformed_coords

(* the agreement apart from the validator's lookup of the target frame *)
C26_AgreeUpToTargetLookup ==
    BothCalled =>
        /\ thumb.outcome = "returned" <=>
               validated.error \notin (PreBoundsErrors \ {TargetNotFound})
        /\ thumb.outcome = "returned" =>
               thumb.coordinates = validated.transformed_coords

C26_Disagreement ==
    /\ BothCalled
    /\ thumb.outcome = "returned"
    /\ validated.outcome = "raised"
    /\ validated.error = TargetNotFound

ValidateCetsCalled == call.op = "validate_cets" /\ built.outcome # "none"

(* C27: validate_cets: when the loaded dataset dictionary fails validation *)
(* against the Dataset model, validate_cets reports the failure and        *)
(* returns without running annotation validation on any region;            *)
(* annotation validation runs only after the dataset has validated.        *)
C27_InvalidDatasetStops ==
    ValidateCetsCalled =>
        /\ ~call.args.dataset.valid =>
              /\ built.outcome = "returned"
              /\ built.value.log = <<"CETS Dataset validation failed">>
              /\ built.value.runs = <<>>
        /\ built.value.runs # <<>> => call.args.dataset.valid

(* an invalid dataset whose annotations were validated all the same *)
C27_InvalidDatasetValidated ==
    /\ ValidateCetsCalled
    /\ ~call.args.dataset.valid
    /\ built.value.log = <<"CETS Dataset validation successful">>
    /\ Len(built.value.runs) = 1
    /\ Len(built.value.runs[1].log) = 1

AnnotationsConverted ==
    /\ call.op = "create_cets_annotations_from_region_definition"
    /\ built.outcome = "returned"

(* C28: create_cets_annotations_from_region_definition returns exactly one *)
(* record per (annotation definition, tomogram) pair, in annotation-major  *)
(* order, and every record is built from the annotation definition of its  *)
(* own iteration: no record from an earlier iteration is appended again,   *)
(* for any annotation_type.                                                *)
C28_OneRecordPerPair ==
    AnnotationsConverted =>
        LET annotations == call.args.annotations
            n == Len(call.args.cets_tomograms)
        IN  /\ Len(built.value) = Len(annotations) * n
            /\ \A a \in 1..Len(annotations) : \A t \in 1..n :
                  built.value[(a - 1) * n + t].path =
                      annotation_json_path_of(annotations[a].label)

(* the record of the first definition returned for the second one too *)
C28_StaleRecord ==
    /\ AnnotationsConverted
    /\ Len(call.args.annotations) = 2
    /\ Len(call.args.cets_tomograms) = 1
    /\ call.args.annotations[1].label = "particles"
    /\ call.args.annotations[2].label = "ribosomes"
    /\ call.args.annotations[2].annotation_type = "segmentation_mask"
    /\ Len(built.value) = 2
    /\ built.value[2] = built.value[1]
    /\ built.value[2].path = <<"star", "particles">>

Extent == <<tomogram.width, tomogram.height, tomogram.depth>>

(* a coordinate below 0 or above the extent of its axis *)
BeyondExtent(p) == \E ax \in 1..3 : p[ax] < 0 \/ p[ax] > Extent[ax]

VoxelTargetReturned ==
    /\ ValidatorCalled
    /\ validated.outcome = "returned"
    /\ contains_voxel(validated.target_cs_name)

(* C29: for a voxel-indexed target frame and a tomogram with integer       *)
(* width, height and depth (a dimension equal to 0 included),              *)
(* validate_with_tomogram never returns successfully for an annotation     *)
(* that has a point with a coordinate outside the volume's extent.         *)
C29_NoSuccessBeyondExtent ==
    VoxelTargetReturned =>
        \A i \in DOMAIN validated.transformed_coords :
            ~BeyondExtent(validated.transformed_coords[i])

(* the same for tomograms without a dimension equal to 0 *)
C29_NonzeroDimensionsChecked ==
    (VoxelTargetReturned /\ \A ax \in 1..3 : Extent[ax] # 0) =>
        \A i \in DOMAIN validated.transformed_coords :
            ~BeyondExtent(validated.transformed_coords[i])

(* a volume of width 0 and a point at x = 2, validated successfully *)
C29_ZeroDimensionSkipsCheck ==
    /\ VoxelTargetReturned
    /\ Extent = <<0, 1, 1>>
    /\ validated.transformed_coords = << <<2, 0, 0>> >>
    /\ validated.bounds = <<>>

LoaderCalled == fs.last.loader # ""

(* C30: cached metadata loading: a download happens only when the local    *)
(* cache file is absent, and the temporary file of a download is deleted   *)
(* on every exit path (parse and save succeed, or either fails): after any *)
(* sequence of calls no temporary download remains.                        *)
C30_NoTemporaryFileRemains ==
    /\ fs.temp = {}
    /\ LoaderCalled => (fs.last.downloaded <=> ~fs.last.cached_before)

C30_Witness ==
    /\ LoaderCalled
    /\ fs.last.loader = "load_xf_file"
    /\ fs.last.downloaded
    /\ fs.last.outcome = "raised"
    /\ fs.made = 3
    /\ fs.temp = {}
    /\ fs.cache[<<"mdoc", "label_1">>] = "complete"
    /\ fs.cache[<<"star", "label_2">>] = "partial"

====
